---- MODULE Spec2Model ----
(***************************************************************************)
(* Model of the metadata reconciliation core of geofetch                   *)
(* (src/geofetch/geofetch.py): the SOFT state machine _read_gsm_metadata,  *)
(* the run-info reconciler _process_sra_meta, _sanitize_name, the          *)
(* common-attribute factorizer _separate_common_meta, the list resolution  *)
(* _expand_metadata_list_in_dict, the writer _write_raw_annotation_new,    *)
(* the series loop of fetch_all with its download loop, and the retry      *)
(* loops of _download_SRA_file and _download_processed_file.               *)
(*                                                                         *)
(* A Python str is a sequence of atoms.  An atom is a TLA+ string that is  *)
(* either one character ("a", " ", ",", "=", ...) or an unbroken chunk of  *)
(* alphanumeric characters ("GSM1", "SRX1001", "Sample_title").  len() of  *)
(* a str is the sum of the lengths of its atoms.  A dict key is the        *)
(* concatenation of the atoms of the key text.                             *)
(***************************************************************************)
EXTENDS Integers, Sequences, FiniteSets, TLC

VARIABLES
    pc,                 \* position of the modelled call
    gsm_enter_dict,     \* acc_GSE_list[acc_GSE]: GSM accession -> display name
    file_gsm_content,   \* the lines of the GSM SOFT document consumed so far
    gsm_metadata,       \* insertion-ordered dict: accession -> attribute bag
    current_sample_id,  \* _read_gsm_metadata: key of the live record or NoneId
    current_sample_srx, \* _read_gsm_metadata: the live record was re-keyed
    samples_list,       \* _read_gsm_metadata: accepted delimiter accessions
    split_experiments,  \* Geofetcher.split_experiments
    srp_list_result,    \* the run-info rows consumed so far
    gsm_multi_table,    \* insertion-ordered dict: experiment -> list of triples
    name_str,           \* _sanitize_name: the argument
    new_str,            \* _sanitize_name: the result
    metadata_dict,      \* _separate_common_meta: the sample mapping passed in
    limits,             \* [max_len, del_limit, attr_limit_truncate]
    meta_list,          \* _separate_common_meta: the sample mapping returned
    new_meta_project,   \* _separate_common_meta: the project attributes returned
    subannot_dict,      \* _write_raw_annotation_new: the linkage mapping passed in
    files,              \* insertion-ordered dict: path of a written file -> content
    warnings,           \* the warnings logged so far
    return_value,       \* what the call returned, Unset before it returns
    acc_GSE_list,       \* fetch_all: the series of the input, with their documents
    ncount,             \* fetch_all: the number of series taken from the input
    metadata_dict_combined,      \* fetch_all: the combined sample mapping
    subannotation_dict_combined, \* fetch_all: the combined linkage mapping
    discard_soft,       \* Geofetcher.discard_soft
    sra_meta_log,       \* what _get_SRA_meta did for every series taken
    acc_anno,           \* Geofetcher.acc_anno
    raw_annotation_calls, \* fetch_all: the calls of _write_raw_annotation_new
    NUM_RETRIES,        \* the retry limit of _download_SRA_file
    t,                  \* _download_SRA_file: the number of prefetch invocations
    subprocess_returns, \* _download_SRA_file: what the invocations returned
    ntry,               \* _download_processed_file: the failed attempts
    download_errors,    \* _download_processed_file: the IOError of every failed attempt
    just_metadata,      \* Geofetcher.just_metadata
    raw_data_calls      \* fetch_all: the runs _download_raw_data was called for

gsmVars == <<gsm_enter_dict, file_gsm_content, gsm_metadata, current_sample_id,
             current_sample_srx, samples_list>>
sraVars == <<split_experiments, srp_list_result, gsm_multi_table>>
nameVars == <<name_str, new_str>>
metaVars == <<metadata_dict, limits, meta_list, new_meta_project>>
writeVars == <<subannot_dict, files, warnings, return_value>>
fetchVars == <<acc_GSE_list, ncount, metadata_dict_combined,
               subannotation_dict_combined, discard_soft, sra_meta_log,
               acc_anno, raw_annotation_calls>>
dlVars == <<NUM_RETRIES, t, subprocess_returns, ntry, download_errors,
            just_metadata, raw_data_calls>>
vars == <<pc, gsmVars, sraVars, nameVars, metaVars, writeVars, fetchVars, dlVars>>

\* ------------------------------------------------------------------ bounds
MaxLines == 4
MaxRows == 4
MaxNameLen == 4
MaxSamples == 2
MaxElems == 3
MaxSeries == 2
MaxOrderLines == 5
MaxRetries == 4

\* ------------------------------------------------------------- str helpers
RECURSIVE Concat(_)
Concat(s) == IF s = <<>> THEN "" ELSE Head(s) \o Concat(Tail(s))

RECURSIVE StrLen(_)
StrLen(s) == IF s = <<>> THEN 0 ELSE Len(Head(s)) + StrLen(Tail(s))

IsSpace(a) == a \in {" ", "\t"}

RECURSIVE rstrip(_)
rstrip(s) == IF s = <<>> THEN s
             ELSE IF IsSpace(s[Len(s)]) THEN rstrip(SubSeq(s, 1, Len(s) - 1))
             ELSE s

RECURSIVE lstrip(_)
lstrip(s) == IF s = <<>> THEN s
             ELSE IF IsSpace(Head(s)) THEN lstrip(Tail(s))
             ELSE s

\* index of the first atom a of s, 0 when there is none
RECURSIVE IndexOf(_, _, _)
IndexOf(s, a, i) == IF i > Len(s) THEN 0
                    ELSE IF s[i] = a THEN i
                    ELSE IndexOf(s, a, i + 1)

\* ---------------------------------------------------------- tagged values
None == [t |-> "none"]
Str(s) == [t |-> "str", s |-> s]
List(l) == [t |-> "list", l |-> l]
IsList(v) == v.t = "list"
NoneId == "None"
\* a variable that holds a tagged value before it is assigned
Unset == [t |-> "unset"]

\* ------------------------------------------------- insertion-ordered dict
DictKeys(d) == {d[i].k : i \in 1..Len(d)}
DictHas(d, key) == key \in DictKeys(d)
DictIdx(d, key) == CHOOSE i \in 1..Len(d) : d[i].k = key
DictGet(d, key) == d[DictIdx(d, key)].v
DictSet(d, key, val) ==
    IF DictHas(d, key)
    THEN [d EXCEPT ![DictIdx(d, key)] = [k |-> key, v |-> val]]
    ELSE Append(d, [k |-> key, v |-> val])
DictPop(d, key) == SelectSeq(d, LAMBDA e : e.k # key)

\* one key of an attribute bag: bag with key set to val
BagSet(bag, key, val) ==
    [x \in DOMAIN bag \cup {key} |-> IF x = key THEN val ELSE bag[x]]
BagDel(bag, key) == [x \in DOMAIN bag \ {key} |-> bag[x]]

\* ------------------------------------------------------------ SOFT lines
\* parse_SOFT_line (geofetch/utils.py): split on the first "=", the key is
\* the text left of it without the sigil, trimmed; the value is the
\* left-trimmed remainder; fails when the line has no "=".
parse_SOFT_line(line) ==
    LET i == IndexOf(line, "=", 1) IN
    IF i = 0 THEN [ok |-> FALSE]
    ELSE [ok |-> TRUE,
          key |-> Concat(rstrip(lstrip(SubSeq(line, 2, i - 1)))),
          val |-> lstrip(SubSeq(line, i + 1, Len(line)))]

\* EXPERIMENT_PATTERN (geofetch/const.py): SRX followed by 4-8 digits.
SrxTokens == {"SRX1001", "SRX1002"}
EXPERIMENT_PATTERN(a) == a \in SrxTokens
findall(line) == SelectSeq(line, EXPERIMENT_PATTERN)

GsmIds == {"GSM1", "GSM2"}
AttrKeys == {"Sample_title", "organism"}
AttrVals == {"v1"} \cup SrxTokens

Lines ==
    {<<" ">>, <<"^", "SAMPLE">>, <<"!", "SRX1001">>}
    \cup {<<"^", "SAMPLE", " ", "=", " ", g>> : g \in GsmIds}
    \cup {<<"!", k, " ", "=", " ", v>> : k \in AttrKeys, v \in AttrVals}

Names == {<<>>, <<"S", "1">>}
Filters ==
    {<<>>}
    \cup {("GSM1" :> n) : n \in Names}
    \cup {("GSM1" :> <<"S", "1">>) @@ ("GSM2" :> <<>>)}

\* the record created by a sample delimiter line
NewRecord ==
    [sample_name |-> Str(<<>>), protocol |-> Str(<<>>), organism |-> Str(<<>>),
     read_type |-> Str(<<>>), data_source |-> None, SRR |-> None, SRX |-> None]

\* ------------------------------------------------- list resolution (671-762)
\* str.split(": ")
RECURSIVE SplitColon(_, _)
SplitColon(s, part) ==
    IF s = <<>> THEN <<part>>
    ELSE IF Len(s) >= 2 /\ s[1] = ":" /\ s[2] = " "
         THEN <<part>> \o SplitColon(SubSeq(s, 3, Len(s)), <<>>)
         ELSE SplitColon(Tail(s), Append(part, Head(s)))

\* sep.join(parts)
RECURSIVE Join(_, _)
Join(parts, sep) ==
    IF parts = <<>> THEN <<>>
    ELSE IF Len(parts) = 1 THEN parts[1]
    ELSE parts[1] \o sep \o Join(Tail(parts), sep)

SubkeyMaxLen == 40

\* the loop over the elements of one list value (lines 710-742); the state
\* of the loop is [item, just_string, this_string, err]
RECURSIVE ExpandElems(_, _)
ExpandElems(st, elems) ==
    IF elems = <<>> \/ st.err THEN st
    ELSE LET elem == Head(elems) IN
         IF elem.t # "str" THEN [st EXCEPT !.err = TRUE]
         ELSE
         LET separated_elements == SplitColon(elem.s, <<>>)
             joined(sep) == IF st.this_string # <<>>
                            THEN Join(<<st.this_string, elem.s>>, sep)
                            ELSE elem.s
             asString(sep) == [st EXCEPT !.just_string = TRUE,
                                         !.this_string = joined(sep)]
             nxt == IF Len(separated_elements) >= 2
                    THEN IF StrLen(separated_elements[1]) > SubkeyMaxLen
                         THEN asString(<<",", " ">>)
                         ELSE IF IndexOf(separated_elements[1], "(", 1) > 0
                         THEN asString(<<"(">>)
                         ELSE [st EXCEPT !.item =
                                  BagSet(st.item, Concat(separated_elements[1]),
                                         Str(Join(Tail(separated_elements), <<":", " ">>)))]
                    ELSE asString(<<",", " ">>)
         IN ExpandElems(nxt, Tail(elems))

\* _expand_metadata_list_item on one item; [item, err]
ExpandOneItem(item, dict_key) ==
    IF dict_key \notin DOMAIN item THEN [item |-> item, err |-> FALSE]
    ELSE LET elems == IF IsList(item[dict_key]) THEN item[dict_key].l
                      ELSE <<item[dict_key]>>
             st == ExpandElems([item |-> item, just_string |-> FALSE,
                                this_string |-> <<>>, err |-> FALSE], elems)
         IN [item |-> IF st.just_string
                      THEN BagSet(st.item, dict_key, Str(st.this_string))
                      ELSE BagDel(st.item, dict_key),
             err |-> st.err]

\* _expand_metadata_list_item; the result is [list, err], err standing for
\* the AttributeError of None.split that no handler catches
_expand_metadata_list_item(lst, dict_key) ==
    LET metadata_list == lst.list
        element_is_list == \E n \in 1..Len(metadata_list) :
                              /\ dict_key \in DOMAIN metadata_list[n]
                              /\ IsList(metadata_list[n][dict_key])
        res == [n \in 1..Len(metadata_list) |->
                   ExpandOneItem(metadata_list[n], dict_key)]
    IN IF lst.err \/ ~element_is_list THEN lst
       ELSE [list |-> [n \in 1..Len(metadata_list) |-> res[n].item],
             err |-> \E n \in 1..Len(metadata_list) : res[n].err]

\* _dict_to_list_convector(proj_dict=...)
_dict_to_list(proj_dict) ==
    [n \in 1..Len(proj_dict) |->
        BagSet(proj_dict[n].v, "big_key", Str(<<proj_dict[n].k>>))]

\* _dict_to_list_convector(proj_list=...)
RECURSIVE _list_to_dict(_)
_list_to_dict(proj_list) ==
    IF proj_list = <<>> THEN <<>>
    ELSE LET n == Len(proj_list)
             sample == proj_list[n]
         IN DictSet(_list_to_dict(SubSeq(proj_list, 1, n - 1)),
                    Concat(sample["big_key"].s), sample)

\* the keys that hold a list on some item: _expand_metadata_list_item changes
\* nothing for any other key, and no call turns a value into a list
ListKeys(metadata_list) ==
    {key \in UNION {DOMAIN metadata_list[n] : n \in 1..Len(metadata_list)} :
        \E n \in 1..Len(metadata_list) :
            key \in DOMAIN metadata_list[n] /\ IsList(metadata_list[n][key])}

Perms(S) == {f \in [1..Cardinality(S) -> S] :
                \A i, j \in 1..Cardinality(S) : i # j => f[i] # f[j]}

\* _expand_metadata_list along one iteration order of list(set(keys))
RECURSIVE _expand_metadata_list(_, _)
_expand_metadata_list(lst, list_of_keys) ==
    IF list_of_keys = <<>> THEN lst
    ELSE _expand_metadata_list(
             _expand_metadata_list_item(lst, Head(list_of_keys)),
             Tail(list_of_keys))

\* ----------------------------------------- _read_gsm_metadata (1929-2012)
GSM_limit_list == DOMAIN gsm_enter_dict

\* lines 1986-1995
MergeAttr(bag, new_key, val) ==
    IF new_key \in DOMAIN bag
    THEN IF IsList(bag[new_key])
         THEN BagSet(bag, new_key, List(Append(bag[new_key].l, Str(val))))
         ELSE BagSet(bag, new_key, List(<<bag[new_key], Str(val)>>))
    ELSE BagSet(bag, new_key, Str(val))

\* mutant: the re-keyed flag is not consulted
RekeyAllowed_Always(srx_flag) == TRUE

\* line 1998
RekeyAllowed(srx_flag) == ~srx_flag

\* mutant: the record is copied to the SRX key and the GSM key stays
Rekey_KeepOld(d, sample_id, srx_id) ==
    DictSet(d, srx_id, BagSet(DictGet(d, sample_id), "gsm_id", Str(<<sample_id>>)))

\* lines 2003-2006
Rekey(d, sample_id, srx_id) ==
    DictSet(DictPop(d, sample_id), srx_id,
            BagSet(DictGet(d, sample_id), "gsm_id", Str(<<sample_id>>)))

\* lines 1950-1952
SkipBlank(raw) ==
    /\ Len(rstrip(raw)) = 0
    /\ UNCHANGED <<pc, gsm_metadata, current_sample_id, current_sample_srx,
                   samples_list>>

\* lines 1953-1975
SampleDelimiter(raw) ==
    LET line == rstrip(raw)
        pl == parse_SOFT_line(line)
    IN /\ Len(line) > 0
       /\ line[1] = "^"
       /\ IF ~pl.ok \/ pl.key # "SAMPLE"
          THEN \* IndexError of parse_SOFT_line / KeyError of pl["SAMPLE"]
               /\ pc' = "error"
               /\ UNCHANGED <<gsm_metadata, current_sample_id,
                              current_sample_srx, samples_list>>
          ELSE LET acc == Concat(pl.val) IN
               IF Cardinality(DOMAIN gsm_enter_dict) > 0
                  /\ acc \notin GSM_limit_list
               THEN /\ current_sample_id' = NoneId
                    /\ UNCHANGED <<pc, gsm_metadata, current_sample_srx,
                                   samples_list>>
               ELSE /\ current_sample_id' = acc
                    /\ current_sample_srx' = FALSE
                    /\ gsm_metadata' = DictSet(gsm_metadata, acc, NewRecord)
                    /\ samples_list' = Append(samples_list, acc)
                    /\ UNCHANGED pc

\* lines 1976-2008
AttributeLine(raw) ==
    LET line == rstrip(raw)
        pl == parse_SOFT_line(line)
    IN /\ Len(line) > 0
       /\ line[1] # "^"
       /\ current_sample_id # NoneId
       /\ IF ~pl.ok
          THEN UNCHANGED <<gsm_metadata, current_sample_id, current_sample_srx>>
          ELSE LET merged == DictSet(gsm_metadata, current_sample_id,
                                 MergeAttr(DictGet(gsm_metadata, current_sample_id),
                                           pl.key, pl.val))
                   found == findall(line)
               IN IF RekeyAllowed(current_sample_srx) /\ found # <<>>
                  THEN /\ gsm_metadata' = Rekey(merged, current_sample_id, found[1])
                       /\ current_sample_id' = found[1]
                       /\ current_sample_srx' = TRUE
                  ELSE /\ gsm_metadata' = merged
                       /\ UNCHANGED <<current_sample_id, current_sample_srx>>
       /\ UNCHANGED <<pc, samples_list>>

\* mutant: an SRX token read while no sample is live opens a record
IdleLine_Rekey(raw) ==
    LET line == rstrip(raw)
        found == findall(line)
    IN /\ Len(line) > 0
       /\ line[1] # "^"
       /\ current_sample_id = NoneId
       /\ gsm_metadata' = IF found # <<>>
                          THEN DictSet(gsm_metadata, found[1], NewRecord)
                          ELSE gsm_metadata
       /\ UNCHANGED <<pc, current_sample_id, current_sample_srx, samples_list>>

\* line 1976: an attribute line while no sample is live
IdleLine(raw) ==
    LET line == rstrip(raw)
    IN /\ Len(line) > 0
       /\ line[1] # "^"
       /\ current_sample_id = NoneId
       /\ UNCHANGED <<pc, gsm_metadata, current_sample_id, current_sample_srx,
                      samples_list>>

\* one iteration of the loop of line 1949 on a line of the pool
ReadLineFrom(pool, max) ==
    /\ pc = "read"
    /\ Len(file_gsm_content) < max
    /\ \E raw \in pool :
          /\ file_gsm_content' = Append(file_gsm_content, raw)
          /\ \/ SkipBlank(raw)
             \/ SampleDelimiter(raw)
             \/ AttributeLine(raw)
             \/ IdleLine(raw)
    /\ UNCHANGED <<gsm_enter_dict, sraVars, nameVars, metaVars, writeVars, fetchVars, dlVars>>

ReadLine == ReadLineFrom(Lines, MaxLines)

\* lines 2009-2012: end of input, list resolution, return
ReturnGsm ==
    /\ pc = "read"
    /\ LET lst == _dict_to_list(gsm_metadata) IN
       \E list_of_keys \in Perms(ListKeys(lst)) :
          LET res == _expand_metadata_list([list |-> lst, err |-> FALSE],
                                            list_of_keys)
          IN IF res.err
             THEN pc' = "error" /\ UNCHANGED gsm_metadata
             ELSE pc' = "done" /\ gsm_metadata' = _list_to_dict(res.list)
    /\ UNCHANGED <<gsm_enter_dict, file_gsm_content, current_sample_id,
                   current_sample_srx, samples_list, sraVars, nameVars, metaVars, writeVars, fetchVars, dlVars>>

\* the variables of the reconciler and of _sanitize_name before their calls
IdleSra ==
    /\ split_experiments = FALSE
    /\ srp_list_result = <<>>
    /\ gsm_multi_table = <<>>
IdleName ==
    /\ name_str = <<>>
    /\ new_str = <<>>
IdleMeta ==
    /\ metadata_dict = <<>>
    /\ limits = [max_len |-> 50, del_limit |-> 250, attr_limit_truncate |-> 500]
    /\ meta_list = <<>>
    /\ new_meta_project = <<>>
IdleWrite ==
    /\ subannot_dict = <<>>
    /\ files = <<>>
    /\ warnings = <<>>
    /\ return_value = Unset
IdleDownload ==
    /\ NUM_RETRIES = 3
    /\ t = 0
    /\ subprocess_returns = <<>>
    /\ ntry = 0
    /\ download_errors = <<>>
    /\ just_metadata = TRUE
    /\ raw_data_calls = <<>>
IdleFetch ==
    /\ acc_GSE_list = <<>>
    /\ ncount = 0
    /\ metadata_dict_combined = <<>>
    /\ subannotation_dict_combined = <<>>
    /\ discard_soft = FALSE
    /\ sra_meta_log = <<>>
    /\ acc_anno = FALSE
    /\ raw_annotation_calls = <<>>

InitGsm ==
    /\ pc = "read"
    /\ gsm_enter_dict \in Filters
    /\ file_gsm_content = <<>>
    /\ gsm_metadata = <<>>
    /\ current_sample_id = NoneId
    /\ current_sample_srx = FALSE
    /\ samples_list = <<>>
    /\ IdleSra
    /\ IdleName
    /\ IdleMeta
    /\ IdleWrite
    /\ IdleFetch
    /\ IdleDownload

NextGsm == ReadLine \/ ReturnGsm

SpecGsm == InitGsm /\ [][NextGsm]_vars

\* The assembler on documents of up to three samples, without filter: the
\* delimiter lines of GSM1..GSM3, a line with and a line without an SRX
\* token, and a blank line.
OrderLines ==
    {<<" ">>}
    \cup {<<"^", "SAMPLE", " ", "=", " ", g>> : g \in {"GSM1", "GSM2", "GSM3"}}
    \cup {<<"!", "Sample_title", " ", "=", " ", v>> : v \in {"v1", "SRX1001"}}

ReadOrderLine == ReadLineFrom(OrderLines, MaxOrderLines)

InitOrder ==
    /\ pc = "read"
    /\ gsm_enter_dict = <<>>
    /\ file_gsm_content = <<>>
    /\ gsm_metadata = <<>>
    /\ current_sample_id = NoneId
    /\ current_sample_srx = FALSE
    /\ samples_list = <<>>
    /\ IdleSra
    /\ IdleName
    /\ IdleMeta
    /\ IdleWrite
    /\ IdleFetch
    /\ IdleDownload

NextOrder == ReadOrderLine \/ ReturnGsm

SpecOrder == InitOrder /\ [][NextOrder]_vars

\* ------------------------------------------- _sanitize_name (1078-1090)
\* line 1086; the backquote of the source string has no TLA+ string literal
punctuation1 ==
    {"!", "\"", "#", "$", "%", "&", "'", "(", ")", "*", ",", ".", "/", ":",
     ";", "<", "=", ">", "?", "@", "[", "\\", "]", "^", "_", "{", "|",
     "}", "~"}

\* str.replace(old, new) for a one-character old
ReplaceChar(s, old, new) == [i \in 1..Len(s) |-> IF s[i] = old THEN new ELSE s[i]]

\* the loop of lines 1087-1088
ReplacePunctuation(s) ==
    [i \in 1..Len(s) |-> IF s[i] \in punctuation1 THEN "_" ELSE s[i]]

\* str.replace("__", "_"): one left-to-right pass over non-overlapping matches
RECURSIVE ReplaceDoubleUnderscore(_)
ReplaceDoubleUnderscore(s) ==
    IF Len(s) < 2 THEN s
    ELSE IF s[1] = "_" /\ s[2] = "_"
         THEN <<"_">> \o ReplaceDoubleUnderscore(SubSeq(s, 3, Len(s)))
         ELSE <<s[1]>> \o ReplaceDoubleUnderscore(Tail(s))

_sanitize_name(s) ==
    ReplaceDoubleUnderscore(ReplaceChar(ReplacePunctuation(s), " ", "_"))

NameChars == {"a", " ", ",", "_"}
NameStrings == UNION {[1..n -> NameChars] : n \in 0..MaxNameLen}

SanitizeCall ==
    /\ pc = "sanitize"
    /\ new_str' = _sanitize_name(name_str)
    /\ pc' = "sanitized"
    /\ UNCHANGED <<gsmVars, sraVars, name_str, metaVars, writeVars, fetchVars, dlVars>>

InitName ==
    /\ pc = "sanitize"
    /\ name_str \in NameStrings
    /\ new_str = <<>>
    /\ gsm_enter_dict = <<>>
    /\ file_gsm_content = <<>>
    /\ gsm_metadata = <<>>
    /\ current_sample_id = NoneId
    /\ current_sample_srx = FALSE
    /\ samples_list = <<>>
    /\ IdleSra
    /\ IdleMeta
    /\ IdleWrite
    /\ IdleFetch
    /\ IdleDownload

NextName == SanitizeCall

SpecName == InitName /\ [][NextName]_vars

\* ------------------------------------------- _update_columns (1316-1359)
LowerAtom(a) ==
    CASE a = "Reduced" -> "reduced"
      [] a = "Representation" -> "representation"
      [] a = "RANDOM" -> "random"
      [] a = "Random" -> "random"
      [] a = "Sample_title" -> "sample_title"
      [] OTHER -> a
\* mutant: the text is taken as it is
lower_AsIs(s) == s

lower(s) == [i \in 1..Len(s) |-> LowerAtom(s[i])]

bisulfite_protocols(proto) ==
    CASE proto = <<"reduced", " ", "representation">> -> <<"RRBS">>
      [] proto = <<"random">> -> <<"WGBS">>
      [] OTHER -> <<>>

UpdateColumnsKeys ==
    {"Sample_library_selection", "Sample_organism_ch1", "Sample_library_strategy"}

_update_columns(exp, experiment_name, sample_name, read_type) ==
    LET e1 == [exp EXCEPT !["sample_name"] = Str(sample_name),
                          !["protocol"] = exp["Sample_library_selection"],
                          !["read_type"] = Str(read_type),
                          !["organism"] = exp["Sample_organism_ch1"],
                          !["data_source"] = Str(<<"SRA">>),
                          !["SRX"] = Str(<<experiment_name>>)]
        proto == lower(exp["Sample_library_selection"].s)
    IN IF exp["Sample_library_strategy"] = Str(<<"Bisulfite-Seq">>)
          /\ bisulfite_protocols(proto) # <<>>
       THEN [e1 EXCEPT !["protocol"] = Str(bisulfite_protocols(proto))]
       ELSE e1

\* ----------------------------------------- _process_sra_meta (423-494)
\* mutant: the filter is never consulted
OverrideName_Ignored(rec) == <<>>

\* lines 434-439: the display name of the filter, None (<<>>) on KeyError
OverrideName(rec) ==
    IF "gsm_id" \in DOMAIN rec
       /\ Concat(rec["gsm_id"].s) \in DOMAIN gsm_enter_dict
    THEN gsm_enter_dict[Concat(rec["gsm_id"].s)]
    ELSE <<>>

\* lines 434-443
ResolveSampleName(rec) ==
    IF OverrideName(rec) # <<>>
    THEN OverrideName(rec)
    ELSE _sanitize_name(rec["Sample_title"].s)

Triple(sample_name, experiment, run) == <<sample_name, <<experiment>>, <<run>>>>

\* mutant: a new linkage list is not seeded with the first run
AppendRun_NoSeed(table, experiment, sample_name, first_srr, run_name) ==
    IF ~DictHas(table, experiment)
    THEN DictSet(table, experiment, <<<<sample_name, <<experiment>>, <<run_name>>>>>>)
    ELSE DictSet(table, experiment,
                 Append(DictGet(table, experiment),
                        <<sample_name, <<experiment>>, <<run_name>>>>))

\* lines 459-478: the linkage table after one more run of experiment
AppendRun(table, experiment, sample_name, first_srr, run_name) ==
    IF ~DictHas(table, experiment)
    THEN DictSet(table, experiment,
                 <<Triple(sample_name, experiment, Concat(first_srr)),
                   Triple(sample_name, experiment, run_name)>>)
    ELSE DictSet(table, experiment,
                 Append(DictGet(table, experiment),
                        Triple(sample_name, experiment, run_name)))

\* mutant: the last run id is stored instead of the literal
MultiSrr_Run(run_name) == Str(<<run_name>>)

\* line 489
MultiSrr(run_name) == Str(<<"multi">>)

\* mutant: the clone keeps the SRR of the original record
SplitClone_SameRun(rec, rep_number, run_name) ==
    [rec EXCEPT !["sample_name"] = Str(@.s \o <<"_", ToString(rep_number)>>)]

\* lines 480-486: the clone of split mode
SplitClone(rec, rep_number, run_name) ==
    [rec EXCEPT !["sample_name"] = Str(@.s \o <<"_", ToString(rep_number)>>),
                !["SRR"] = Str(<<run_name>>)]

SkipRow_Abort(line) ==
    /\ ~DictHas(gsm_metadata, line.Experiment)
    /\ pc' = "error"
    /\ UNCHANGED <<gsm_metadata, gsm_multi_table>>

SkipRow(line) ==
    /\ ~DictHas(gsm_metadata, line.Experiment)
    /\ UNCHANGED <<pc, gsm_metadata, gsm_multi_table>>

\* mutant: the first run already marks the record as multi
FirstRun_Multi(line) ==
    /\ DictHas(gsm_metadata, line.Experiment)
    /\ LET experiment == line.Experiment
           rec == DictGet(gsm_metadata, experiment)
       IN /\ UpdateColumnsKeys \cup {"Sample_title"} \subseteq DOMAIN rec
          /\ rec["SRR"] = None
          /\ gsm_metadata' =
                DictSet(gsm_metadata, experiment,
                        [_update_columns(rec, experiment, ResolveSampleName(rec),
                                         line.LibraryLayout)
                            EXCEPT !["SRR"] = Str(<<"multi">>)])
    /\ UNCHANGED <<pc, gsm_multi_table>>

\* lines 490-492
FirstRun(line) ==
    /\ DictHas(gsm_metadata, line.Experiment)
    /\ LET experiment == line.Experiment
           rec == DictGet(gsm_metadata, experiment)
       IN /\ UpdateColumnsKeys \cup {"Sample_title"} \subseteq DOMAIN rec
          /\ rec["SRR"] = None
          /\ gsm_metadata' =
                DictSet(gsm_metadata, experiment,
                        [_update_columns(rec, experiment, ResolveSampleName(rec),
                                         line.LibraryLayout)
                            EXCEPT !["SRR"] = Str(<<line.Run>>)])
    /\ UNCHANGED <<pc, gsm_multi_table>>

\* lines 455-489
AdditionalRun(line) ==
    /\ DictHas(gsm_metadata, line.Experiment)
    /\ LET experiment == line.Experiment
           rec == DictGet(gsm_metadata, experiment)
           sample_name == ResolveSampleName(rec)
           upd == _update_columns(rec, experiment, sample_name, line.LibraryLayout)
           table == AppendRun(gsm_multi_table, experiment, sample_name,
                              rec["SRR"].s, line.Run)
           rep_number == Len(DictGet(table, experiment))
           new_SRX == experiment \o "_" \o ToString(rep_number)
       IN /\ UpdateColumnsKeys \cup {"Sample_title"} \subseteq DOMAIN rec
          /\ rec["SRR"] # None
          /\ gsm_multi_table' = table
          /\ IF split_experiments
             THEN gsm_metadata' =
                     DictSet(DictSet(gsm_metadata, experiment, upd),
                             new_SRX, SplitClone(upd, rep_number, line.Run))
             ELSE gsm_metadata' =
                     DictSet(gsm_metadata, experiment,
                             [upd EXCEPT !["SRR"] = MultiSrr(line.Run)])
    /\ UNCHANGED pc

\* lines 436-453: KeyError of a record without title or library fields
MissingField(line) ==
    /\ DictHas(gsm_metadata, line.Experiment)
    /\ LET rec == DictGet(gsm_metadata, line.Experiment)
       IN \/ ~(UpdateColumnsKeys \subseteq DOMAIN rec)
          \/ (OverrideName(rec) = <<>> /\ "Sample_title" \notin DOMAIN rec)
    /\ pc' = "error"
    /\ UNCHANGED <<gsm_metadata, gsm_multi_table>>

RunRows ==
    {[Experiment |-> "SRX1001", Run |-> r, LibraryLayout |-> <<"PAIRED">>] :
        r \in {"SRR1", "SRR2", "SRR3"}}
    \cup {[Experiment |-> "SRX1002", Run |-> r, LibraryLayout |-> <<"SINGLE">>] :
        r \in {"SRR4", "SRR5"}}
    \cup {[Experiment |-> "SRX1003", Run |-> "SRR6", LibraryLayout |-> <<"SINGLE">>]}

\* one iteration of the loop of line 425
ProcessRow ==
    /\ pc = "sra"
    /\ Len(srp_list_result) < MaxRows
    /\ \E line \in RunRows :
          /\ srp_list_result' = Append(srp_list_result, line)
          /\ \/ SkipRow(line)
             \/ FirstRun(line)
             \/ AdditionalRun(line)
             \/ MissingField(line)
    /\ UNCHANGED <<gsm_enter_dict, file_gsm_content, current_sample_id,
                   current_sample_srx, samples_list, split_experiments, nameVars,
                   metaVars, writeVars, fetchVars, dlVars>>

\* line 494
ReturnSra ==
    /\ pc = "sra"
    /\ pc' = "sra_done"
    /\ UNCHANGED <<gsmVars, sraVars, nameVars, metaVars, writeVars, fetchVars, dlVars>>

\* a record as _read_gsm_metadata returns it for a sample re-keyed to srx
SraRecord(gsm, srx, title) ==
    [x \in DOMAIN NewRecord \cup UpdateColumnsKeys
           \cup {"Sample_title", "gsm_id", "big_key"} |->
        CASE x = "Sample_title" -> Str(title)
          [] x = "Sample_library_selection" -> Str(<<"cDNA">>)
          [] x = "Sample_library_strategy" -> Str(<<"RNA-Seq">>)
          [] x = "Sample_organism_ch1" -> Str(<<"Homo", " ", "sapiens">>)
          [] x = "gsm_id" -> Str(<<gsm>>)
          [] x = "big_key" -> Str(<<srx>>)
          [] OTHER -> NewRecord[x]]

Titles == {<<"L", ",", " ", "r">>, <<"a", " ", " ", " ", "b">>}
SrxOf(gsm) == IF gsm = "GSM1" THEN "SRX1001" ELSE "SRX1002"

InitSra ==
    /\ pc = "sra"
    /\ gsm_enter_dict \in Filters
    /\ split_experiments \in BOOLEAN
    /\ \E ttl \in Titles :
          LET all == <<[k |-> SrxOf("GSM1"), v |-> SraRecord("GSM1", SrxOf("GSM1"), ttl)],
                       [k |-> SrxOf("GSM2"),
                        v |-> SraRecord("GSM2", SrxOf("GSM2"), <<"T", "2">>)]>>
          IN gsm_metadata =
                SelectSeq(all, LAMBDA e : \/ DOMAIN gsm_enter_dict = {}
                                          \/ Concat(e.v["gsm_id"].s) \in DOMAIN gsm_enter_dict)
    /\ srp_list_result = <<>>
    /\ gsm_multi_table = <<>>
    /\ file_gsm_content = <<>>
    /\ current_sample_id = NoneId
    /\ current_sample_srx = FALSE
    /\ samples_list = <<>>
    /\ IdleName
    /\ IdleMeta
    /\ IdleWrite
    /\ IdleFetch
    /\ IdleDownload

NextSra == ProcessRow \/ ReturnSra

SpecSra == InitSra /\ [][NextSra]_vars

\* The reconciler on one sample whose library fields vary: the values of
\* Sample_library_strategy and Sample_library_selection of the record
LibraryStrategies == {<<"RNA-Seq">>, <<"Bisulfite-Seq">>}
LibrarySelections ==
    {<<"cDNA">>, <<"Reduced", " ", "Representation">>, <<"RANDOM">>,
     <<"random">>, <<"size", " ", "fractionation">>}

InitColumns ==
    /\ pc = "sra"
    /\ gsm_enter_dict = <<>>
    /\ split_experiments \in BOOLEAN
    /\ \E strategy \in LibraryStrategies, selection \in LibrarySelections :
          gsm_metadata =
             <<[k |-> "SRX1001",
                v |-> [SraRecord("GSM1", "SRX1001", <<"T", "1">>) EXCEPT
                          !["Sample_library_strategy"] = Str(strategy),
                          !["Sample_library_selection"] = Str(selection)]]>>
    /\ srp_list_result = <<>>
    /\ gsm_multi_table = <<>>
    /\ file_gsm_content = <<>>
    /\ current_sample_id = NoneId
    /\ current_sample_srx = FALSE
    /\ samples_list = <<>>
    /\ IdleName
    /\ IdleMeta
    /\ IdleWrite
    /\ IdleFetch
    /\ IdleDownload

SpecColumns == InitColumns /\ [][NextSra]_vars

\* ------------------------------------- _separate_common_meta (1102-1180)
\* len(str(value))
str_len(v) == IF v.t = "none" THEN 4 ELSE StrLen(v.s)

\* _get_list_of_keys (788-800), as a set
_get_list_of_keys(lst) == UNION {DOMAIN lst[n] : n \in 1..Len(lst)}

\* mutant: a value of exactly max_len characters counts as short
ShortValue_Le(value, max_len, del_limit) ==
    str_len(value) <= max_len /\ str_len(value) < del_limit

\* line 1134
ShortValue(value, max_len, del_limit) ==
    str_len(value) < max_len /\ str_len(value) < del_limit

\* lines 1137-1142: the samples after the first one
RECURSIVE DiffersLater(_, _, _, _)
DiffersLater(lst, this_key, value, n) ==
    IF n > Len(lst) THEN FALSE
    ELSE IF this_key \in DOMAIN lst[n] /\ value # lst[n][this_key] THEN TRUE
    ELSE DiffersLater(lst, this_key, value, n + 1)

\* lines 1128-1144: this_key ends up in list_keys_diff
KeyIsDiff(lst, this_key, max_len, del_limit) ==
    IF lst = <<>> THEN FALSE
    ELSE IF this_key \in DOMAIN lst[1]
         THEN \/ ShortValue(lst[1][this_key], max_len, del_limit)
              \/ DiffersLater(lst, this_key, lst[1][this_key], 2)
         ELSE DiffersLater(lst, this_key, Str(<<>>), 2)

IsAlnum(a) == a \notin punctuation1 \cup {" ", "\t", "-", "+"}

\* re.sub("[^A-Za-z0-9]+", " ", s)
RECURSIVE CollapseNonAlnum(_)
CollapseNonAlnum(s) ==
    IF s = <<>> THEN s
    ELSE IF IsAlnum(Head(s)) THEN <<Head(s)>> \o CollapseNonAlnum(Tail(s))
    ELSE IF Len(s) >= 2 /\ ~IsAlnum(s[2]) THEN CollapseNonAlnum(Tail(s))
    ELSE <<" ">> \o CollapseNonAlnum(Tail(s))

\* lines 1155-1158
ProjectValue(v) ==
    IF v.t = "str"
    THEN Str(CollapseNonAlnum(SelectSeq(v.s, LAMBDA a : a # "\"")))
    ELSE v

\* line 1154
HoistAllowed(value, del_limit) == str_len(value) <= del_limit

\* lines 1148-1163: the project entries of the keys not in list_keys_diff,
\* in the order of list_of_keys
RECURSIVE ProjectEntries(_, _, _, _)
ProjectEntries(lst, list_of_keys, max_len, del_limit) ==
    IF list_of_keys = <<>> THEN <<>>
    ELSE LET this_key == Head(list_of_keys)
             holders == {n \in 1..Len(lst) : this_key \in DOMAIN lst[n]}
             first == CHOOSE n \in holders : \A m \in holders : n <= m
             rest == ProjectEntries(lst, Tail(list_of_keys), max_len, del_limit)
         IN IF ~KeyIsDiff(lst, this_key, max_len, del_limit)
               /\ holders # {}
               /\ HoistAllowed(lst[first][this_key], del_limit)
            THEN <<[k |-> this_key, v |-> ProjectValue(lst[first][this_key])]>> \o rest
            ELSE rest

\* line 1161: the keys not in list_keys_diff are deleted from every sample
RemoveCommon(lst, max_len, del_limit) ==
    [n \in 1..Len(lst) |->
        [key \in {x \in DOMAIN lst[n] : KeyIsDiff(lst, x, max_len, del_limit)} |->
            lst[n][key]]]

\* lines 1170-1173
Truncate(value, attr_limit_truncate) ==
    IF str_len(value) < attr_limit_truncate THEN value
    ELSE Str(SubSeq(value.s, 1, attr_limit_truncate) \o <<" ", ".", ".", ".">>)

\* lines 1166-1176
TruncateAll(lst, attr_limit_truncate) ==
    [n \in 1..Len(lst) |->
        [key \in DOMAIN lst[n] |-> Truncate(lst[n][key], attr_limit_truncate)]]

\* _separate_common_meta on a dict along one iteration order list_of_keys of
\* list(set(keys)); err stands for the KeyError of sample["big_key"] and the
\* TypeError of None[0:n]
_separate_common_meta(md, lims, list_of_keys) ==
    LET lst == _dict_to_list(md)
        kept == RemoveCommon(lst, lims.max_len, lims.del_limit)
        err == \/ \E n \in 1..Len(kept) : "big_key" \notin DOMAIN kept[n]
               \/ \E n \in 1..Len(kept) : \E key \in DOMAIN kept[n] :
                     /\ kept[n][key].t # "str"
                     /\ str_len(kept[n][key]) >= lims.attr_limit_truncate
    IN [new_meta_project |->
            ProjectEntries(lst, list_of_keys, lims.max_len, lims.del_limit),
        err |-> err,
        meta_list |-> IF err THEN <<>>
                      ELSE _list_to_dict(TruncateAll(kept, lims.attr_limit_truncate))]

\* one call of _separate_common_meta
SeparateCommonMeta ==
    /\ pc = "meta"
    /\ \E list_of_keys \in Perms(_get_list_of_keys(_dict_to_list(metadata_dict))) :
          LET res == _separate_common_meta(metadata_dict, limits, list_of_keys) IN
          /\ new_meta_project' = res.new_meta_project
          /\ IF res.err
             THEN pc' = "error" /\ UNCHANGED meta_list
             ELSE pc' = "meta_done" /\ meta_list' = res.meta_list
    /\ UNCHANGED <<gsmVars, sraVars, nameVars, metadata_dict, limits, writeVars, fetchVars, dlVars>>

MetaKeys == {"k1", "k2"}
MetaVals == {Str(<<"x">>), Str(<<"x", "x">>), Str(<<"x", ",", "x">>),
             Str(<<"x", "x", "x", "x">>)}
MetaBags == UNION {[D -> MetaVals] : D \in SUBSET MetaKeys}
SampleKey(n) == <<"A", "B", "C", "D">>[n]
Limits == {[max_len |-> 2, del_limit |-> 3, attr_limit_truncate |-> 4],
           [max_len |-> 2, del_limit |-> 4, attr_limit_truncate |-> 5]}

InitMeta ==
    /\ pc = "meta"
    /\ limits \in Limits
    /\ \E n \in 1..MaxSamples : \E bags \in [1..n -> MetaBags] :
          metadata_dict = [i \in 1..n |-> [k |-> SampleKey(i), v |-> bags[i]]]
    /\ meta_list = <<>>
    /\ new_meta_project = <<>>
    /\ gsm_enter_dict = <<>>
    /\ file_gsm_content = <<>>
    /\ gsm_metadata = <<>>
    /\ current_sample_id = NoneId
    /\ current_sample_srx = FALSE
    /\ samples_list = <<>>
    /\ IdleSra
    /\ IdleName
    /\ IdleWrite
    /\ IdleFetch
    /\ IdleDownload

NextMeta == SeparateCommonMeta

SpecMeta == InitMeta /\ [][NextMeta]_vars

\* _separate_common_meta under limits down to one character, where the key
\* of a sample is not shorter than max_len
PositiveLimits ==
    Limits \cup {[max_len |-> 1, del_limit |-> 3, attr_limit_truncate |-> 4],
                 [max_len |-> 1, del_limit |-> 1, attr_limit_truncate |-> 5]}

InitLimits ==
    /\ pc = "meta"
    /\ limits \in PositiveLimits
    /\ \E n \in 1..MaxSamples : \E bags \in [1..n -> MetaBags] :
          metadata_dict = [i \in 1..n |-> [k |-> SampleKey(i), v |-> bags[i]]]
    /\ meta_list = <<>>
    /\ new_meta_project = <<>>
    /\ gsm_enter_dict = <<>>
    /\ file_gsm_content = <<>>
    /\ gsm_metadata = <<>>
    /\ current_sample_id = NoneId
    /\ current_sample_srx = FALSE
    /\ samples_list = <<>>
    /\ IdleSra
    /\ IdleName
    /\ IdleWrite
    /\ IdleFetch
    /\ IdleDownload

SpecLimits == InitLimits /\ [][NextMeta]_vars

\* ------------------------------- _write_raw_annotation_new (928-1013)
\* The writer is modelled for just_object, discard_soft and add_dotfile off.
\* A sample record is an attribute bag; where the order of its keys counts
\* (the header of the sample table) the record is an insertion-ordered dict.

\* lines 1065-1069: the name that is sanitized
FixedName(value_sample) ==
    IF value_sample["sample_name"] \in {Str(<<>>), None}
    THEN value_sample["Sample_title"]
    ELSE value_sample["sample_name"]

\* lines 1065-1073: the KeyError of a record without sample_name or without
\* the Sample_title it falls back to, the AttributeError of None.replace
NameStandardFails(value_sample) ==
    \/ "sample_name" \notin DOMAIN value_sample
    \/ /\ value_sample["sample_name"] \in {Str(<<>>), None}
       /\ "Sample_title" \notin DOMAIN value_sample
    \/ FixedName(value_sample).t # "str"

\* lines 1062-1074
FixSampleNames(md) ==
    [n \in 1..Len(md) |->
        [k |-> md[n].k,
         v |-> BagSet(md[n].v, "sample_name",
                      Str(_sanitize_name(FixedName(md[n].v).s)))]]

\* lines 1199-1200: key.lower().strip(), then _sanitize_name
StdColname(key) == Concat(_sanitize_name(lstrip(rstrip(lower(<<key>>)))))

\* lines 1196-1205: the new record of one item, its keys in the order of
\* list_keys
RECURSIVE StdItem(_, _)
StdItem(values, list_keys) ==
    IF list_keys = <<>> THEN <<>>
    ELSE LET n == Len(list_keys)
             key == list_keys[n]
             rest == StdItem(values, SubSeq(list_keys, 1, n - 1))
         IN IF key \in DOMAIN values
            THEN DictSet(rest, StdColname(key), values[key])
            ELSE rest

\* _standardize_colnames on a dict along one order list_keys of
\* list(set(keys)): new_metalist, a list of insertion-ordered records
_standardize_colnames(md, list_keys) ==
    LET lst == _dict_to_list(md)
    IN [n \in 1..Len(lst) |-> StdItem(lst[n], list_keys)]

\* an insertion-ordered record as an attribute bag, and its key order
AsBag(d) == [key \in DictKeys(d) |-> DictGet(d, key)]
KeyOrder(d) == [i \in 1..Len(d) |-> d[i].k]

\* _check_sample_name_standard (1061-1076)
_check_sample_name_standard(md, list_keys) ==
    _standardize_colnames(FixSampleNames(md), list_keys)

\* _write_gsm_annotation (835-856): keys is the key order of the first record
\* (line 845); csv.DictWriter(extrasaction="ignore") writes the empty value
\* for a key a record lacks and drops the keys that are not in keys
_write_gsm_annotation(metadata, keys) ==
    [header |-> keys,
     rows |-> [n \in 1..Len(metadata) |->
                  [j \in 1..Len(keys) |->
                      IF keys[j] \in DOMAIN metadata[n].v
                      THEN metadata[n].v[keys[j]]
                      ELSE Str(<<>>)]]]

\* mutant: the last triple of every entry is left out
RECURSIVE SubannotRows_DropLast(_)
SubannotRows_DropLast(table) ==
    IF table = <<>> THEN <<>>
    ELSE SubSeq(Head(table).v, 1, Len(Head(table).v) - 1)
         \o SubannotRows_DropLast(Tail(table))

\* _write_subannotation (1400-1425)
RECURSIVE SubannotRows(_)
SubannotRows(table) ==
    IF table = <<>> THEN <<>> ELSE Head(table).v \o SubannotRows(Tail(table))
\* mutant: the first triple of every entry is left out
_write_subannotation_BeyondFirst(tabular_data) ==
    [header |-> <<"sample_name", "SRX", "SRR">>,
     rows |-> SubannotRows([i \in 1..Len(tabular_data) |->
                  [k |-> tabular_data[i].k, v |-> Tail(tabular_data[i].v)]])]

_write_subannotation(tabular_data) ==
    [header |-> <<"sample_name", "SRX", "SRR">>, rows |-> SubannotRows(tabular_data)]

\* _create_config_raw (1037-1059): the values put into the template
_create_config_raw(proj_meta, subanot_path_yaml) ==
    [annotation |-> "proj_root_sample",
     subannotation |-> subanot_path_yaml,
     additional_columns |->
        [i \in 1..Len(proj_meta) |->
            <<proj_meta[i].k, ":", " ">> \o proj_meta[i].v.s]]

\* mutant: the writer goes on with an empty mapping
NoRawData_Never(md) == FALSE

\* lines 937-938: the assertion fails
NoRawData(md) == Len(md) = 0

\* lines 945-1013 for one order list_keys of _standardize_colnames and one
\* order list_of_keys of _separate_common_meta
WriteFiles(md, sub, lims, list_keys, list_of_keys) ==
    LET new_metalist == _check_sample_name_standard(md, list_keys)
        checked == _list_to_dict([n \in 1..Len(new_metalist) |->
                                     AsBag(new_metalist[n])])
        res == _separate_common_meta(checked, lims, list_of_keys)
        keys == SelectSeq(KeyOrder(new_metalist[1]),
                          LAMBDA key : key \in DOMAIN res.meta_list[1].v)
        subanot_path_yaml == IF Len(sub) > 0
                             THEN <<"subsample_table", ":", " ", "proj_root_subsample">>
                             ELSE <<>>
        template == _create_config_raw(res.new_meta_project, subanot_path_yaml)
        sample == <<[k |-> "proj_root_sample",
                     v |-> _write_gsm_annotation(res.meta_list, keys)]>>
        subsample == IF Len(sub) > 0
                     THEN <<[k |-> "proj_root_subsample",
                             v |-> _write_subannotation(sub)]>>
                     ELSE <<>>
    IN [err |-> res.err \/ Len(md) = 0,
        meta_list |-> res.meta_list,
        new_meta_project |-> res.new_meta_project,
        written |-> IF res.err \/ Len(md) = 0 THEN <<>>
                    ELSE sample \o subsample
                         \o <<[k |-> "proj_root_yaml", v |-> template]>>]

\* the files on disk after the files of written were written
RECURSIVE Overwrite(_, _)
Overwrite(disk, written) ==
    IF written = <<>> THEN disk
    ELSE Overwrite(DictSet(disk, Head(written).k, Head(written).v), Tail(written))

\* one call of _write_raw_annotation_new
WriteRawAnnotation ==
    /\ pc = "write"
    /\ IF NoRawData(metadata_dict)
       THEN /\ warnings' = Append(warnings, "No PEP created, as no raw data was found!!!")
            /\ return_value' = None
            /\ pc' = "written"
            /\ UNCHANGED <<files, meta_list, new_meta_project>>
       ELSE IF \E n \in 1..Len(metadata_dict) : NameStandardFails(metadata_dict[n].v)
       THEN /\ pc' = "error"
            /\ UNCHANGED <<files, meta_list, new_meta_project, warnings, return_value>>
       ELSE LET set_of_keys == _get_list_of_keys(_dict_to_list(metadata_dict)) IN
            \E list_keys \in Perms(set_of_keys) :
            \E list_of_keys \in Perms({StdColname(key) : key \in set_of_keys}) :
               LET res == WriteFiles(metadata_dict, subannot_dict, limits,
                                     list_keys, list_of_keys)
               IN IF res.err
                  THEN /\ pc' = "error"
                       /\ UNCHANGED <<files, meta_list, new_meta_project,
                                      warnings, return_value>>
                  ELSE /\ meta_list' = res.meta_list
                       /\ new_meta_project' = res.new_meta_project
                       /\ files' = Overwrite(files, res.written)
                       /\ return_value' = None
                       /\ pc' = "written"
                       /\ UNCHANGED warnings
    /\ UNCHANGED <<gsmVars, sraVars, nameVars, metadata_dict, limits, subannot_dict,
                   fetchVars, dlVars>>

\* the inputs of the writer: up to MaxSamples records, each with a
\* sample_name and possibly the attribute k1, or with an empty sample_name
\* and a Sample_title
WriteVals == {Str(<<"x">>), Str(<<"x", "x", "x", "x">>)}
WriteBags ==
    {[sample_name |-> Str(<<"s">>)],
     [sample_name |-> Str(<<>>), Sample_title |-> Str(<<"t", " ", "1">>)]}
    \cup {[sample_name |-> Str(<<"s">>), k1 |-> v] : v \in WriteVals}
Subannots ==
    {<<>>,
     <<[k |-> "SRX1001", v |-> <<Triple(<<"s", "_", "1">>, "SRX1001", "SRR1"),
                                 Triple(<<"s", "_", "1">>, "SRX1001", "SRR2")>>]>>,
     <<[k |-> "SRX1001", v |-> <<Triple(<<"s", "_", "1">>, "SRX1001", "SRR1"),
                                 Triple(<<"s", "_", "1">>, "SRX1001", "SRR2")>>],
       [k |-> "SRX1002", v |-> <<Triple(<<"t">>, "SRX1002", "SRR3"),
                                 Triple(<<"t">>, "SRX1002", "SRR4"),
                                 Triple(<<"t">>, "SRX1002", "SRR5")>>]>>}

InitWrite ==
    /\ pc = "write"
    /\ limits \in Limits
    /\ \E n \in 0..MaxSamples : \E bags \in [1..n -> WriteBags] :
          metadata_dict = [i \in 1..n |-> [k |-> SampleKey(i), v |-> bags[i]]]
    /\ subannot_dict \in Subannots
    /\ meta_list = <<>>
    /\ new_meta_project = <<>>
    /\ files = <<>>
    /\ warnings = <<>>
    /\ return_value = Unset
    /\ IdleFetch
    /\ IdleDownload
    /\ gsm_enter_dict = <<>>
    /\ file_gsm_content = <<>>
    /\ gsm_metadata = <<>>
    /\ current_sample_id = NoneId
    /\ current_sample_srx = FALSE
    /\ samples_list = <<>>
    /\ IdleSra
    /\ IdleName

NextWrite == WriteRawAnnotation

SpecWrite == InitWrite /\ [][NextWrite]_vars

\* --------------------------- _expand_metadata_list_in_dict (671-674)
\* one call of _expand_metadata_list_in_dict on metadata_dict
ExpandMetadataListInDict ==
    /\ pc = "expand"
    /\ LET prj_list == _dict_to_list(metadata_dict) IN
       \E list_of_keys \in Perms(_get_list_of_keys(prj_list)) :
          LET res == _expand_metadata_list([list |-> prj_list, err |-> FALSE],
                                            list_of_keys)
          IN IF res.err
             THEN pc' = "error" /\ UNCHANGED meta_list
             ELSE pc' = "expanded" /\ meta_list' = _list_to_dict(res.list)
    /\ UNCHANGED <<gsmVars, sraVars, nameVars, metadata_dict, limits,
                   new_meta_project, writeVars, fetchVars, dlVars>>

\* the elements of a repeated attribute: two "subkey: subvalue" elements, a
\* plain one, one with "(" in the subkey, one with a subkey of 41 characters
LongSubkey == "kkkkkkkkkkkkkkkkkkkkkkkkkkkkkkkkkkkkkkkkk"
ElemPool ==
    {Str(<<"a", ":", " ", "1">>), Str(<<"b", ":", " ", "2", ":", " ", "3">>),
     Str(<<"p">>), Str(<<"x", "(", "y", ":", " ", "z">>),
     Str(<<LongSubkey, ":", " ", "v">>)}
ListField == "Sample_characteristics_ch1"
ElemLists == UNION {[1..n -> ElemPool] : n \in 2..MaxElems}

\* one sample with a list-valued field, possibly followed by a sample that
\* holds a plain string under the same key
InitExpand ==
    /\ pc = "expand"
    /\ \E l \in ElemLists :
          metadata_dict \in
             {<<[k |-> "A", v |-> (ListField :> List(l))]>>,
              <<[k |-> "A", v |-> (ListField :> List(l))],
                [k |-> "B", v |-> (ListField :> Str(<<"p">>))]>>}
    /\ limits = [max_len |-> 50, del_limit |-> 250, attr_limit_truncate |-> 500]
    /\ meta_list = <<>>
    /\ new_meta_project = <<>>
    /\ gsm_enter_dict = <<>>
    /\ file_gsm_content = <<>>
    /\ gsm_metadata = <<>>
    /\ current_sample_id = NoneId
    /\ current_sample_srx = FALSE
    /\ samples_list = <<>>
    /\ IdleSra
    /\ IdleName
    /\ IdleWrite
    /\ IdleFetch
    /\ IdleDownload

NextExpand == ExpandMetadataListInDict

SpecExpand == InitExpand /\ [][NextExpand]_vars

\* ------------------------------------------------ fetch_all (237-421)
\* fetch_all is modelled on the raw-data path (processed off) with
\* just_metadata on, refresh_metadata and skip off, and no sample
\* filter.  A series of the input carries its GSE document, the mapping
\* _read_gsm_metadata assembles from its GSM document, whether an _SRA.csv
\* file of an earlier run is on disk, and the answer of the run-info service.

\* the value False
False == [t |-> "bool", b |-> FALSE]

\* PROJECT_PATTERN (geofetch/const.py): SRP followed by digits
SrpTokens == {"SRP1001", "SRP1002"}
PROJECT_PATTERN(a) == a \in SrpTokens

\* lines 1807-1813: the first match of the first line that has one
RECURSIVE FindProject(_)
FindProject(file_gse_content) ==
    IF file_gse_content = <<>> THEN NoneId
    ELSE LET found == SelectSeq(Head(file_gse_content), PROJECT_PATTERN)
         IN IF found # <<>> THEN found[1]
            ELSE FindProject(Tail(file_gse_content))

\* line 301
FileSra(acc_GSE) == acc_GSE \o "_SRA.csv"

\* _get_SRA_meta (1799-1884) with file_sra given: what it returns, the
\* accession it asked run-info for, whether it sent a request, the files on
\* disk and the warnings it logged
_get_SRA_meta(file_gse_content, gsm_meta, file_sra, disk, run_info) ==
    LET found == FindProject(file_gse_content)
        w1 == IF found = NoneId
              THEN <<"Unable to get SRA accession (SRP#) from GEO GSE SOFT file.">>
              ELSE <<>>
        w2 == <<"Error occurred, while downloading SRA Info Metadata">>
        requested == found # NoneId
        srp_list == IF requested THEN run_info.l ELSE <<>>
    IN IF found = NoneId /\ Len(gsm_meta) = 1
       THEN \* line 1826: gsm_metadata.keys()[0] raises TypeError, a dict
            \* view having no index; caught at line 1831
            [result |-> False, acc_SRP |-> NoneId, requested |-> FALSE,
             disk |-> disk, warnings |-> w1 \o <<"Error in gsm_metadata">>]
       ELSE IF DictHas(disk, file_sra)
       THEN \* lines 1860-1872: the rows of the file found on disk
            [result |-> List(DictGet(disk, file_sra)), acc_SRP |-> found,
             requested |-> FALSE, disk |-> disk, warnings |-> w1]
       ELSE IF requested /\ run_info = False
       THEN \* lines 1845, 1855-1860: the request raised
            [result |-> False, acc_SRP |-> found, requested |-> TRUE,
             disk |-> disk, warnings |-> w1 \o w2]
       ELSE IF discard_soft
       THEN [result |-> List(srp_list), acc_SRP |-> found,
             requested |-> requested, disk |-> disk, warnings |-> w1]
       ELSE IF srp_list = <<>>
       THEN \* lines 1848-1849: the file is opened, srp_list[0] raises
            \* IndexError
            [result |-> False, acc_SRP |-> found, requested |-> requested,
             disk |-> DictSet(disk, file_sra, <<>>), warnings |-> w1 \o w2]
       ELSE [result |-> List(srp_list), acc_SRP |-> found,
             requested |-> requested,
             disk |-> DictSet(disk, file_sra, srp_list), warnings |-> w1]

\* one iteration of the loop of line 425 on [gsm_metadata, gsm_multi_table,
\* err]; err is the KeyError of a record without title or library fields
ProcessSraRow(st, line) ==
    IF st.err \/ ~DictHas(st.gsm_metadata, line.Experiment) THEN st
    ELSE LET experiment == line.Experiment
             rec == DictGet(st.gsm_metadata, experiment)
             sample_name == ResolveSampleName(rec)
             upd == _update_columns(rec, experiment, sample_name, line.LibraryLayout)
             table == AppendRun(st.gsm_multi_table, experiment, sample_name,
                                rec["SRR"].s, line.Run)
             rep_number == Len(DictGet(table, experiment))
             new_SRX == experiment \o "_" \o ToString(rep_number)
         IN IF \/ ~(UpdateColumnsKeys \subseteq DOMAIN rec)
               \/ (OverrideName(rec) = <<>> /\ "Sample_title" \notin DOMAIN rec)
            THEN [st EXCEPT !.err = TRUE]
            ELSE IF rec["SRR"] = None
            THEN [st EXCEPT !.gsm_metadata =
                     DictSet(@, experiment, [upd EXCEPT !["SRR"] = Str(<<line.Run>>)])]
            ELSE [st EXCEPT
                     !.gsm_multi_table = table,
                     !.gsm_metadata =
                        IF split_experiments
                        THEN DictSet(DictSet(@, experiment, upd), new_SRX,
                                     SplitClone(upd, rep_number, line.Run))
                        ELSE DictSet(@, experiment,
                                     [upd EXCEPT !["SRR"] = MultiSrr(line.Run)])]

\* _process_sra_meta (423-494) on a list of rows
RECURSIVE ProcessSraRows(_, _)
ProcessSraRows(st, rows) ==
    IF rows = <<>> THEN st
    ELSE ProcessSraRows(ProcessSraRow(st, Head(rows)), Tail(rows))
_process_sra_meta(rows, gsm_meta) ==
    ProcessSraRows([gsm_metadata |-> gsm_meta, gsm_multi_table |-> <<>>,
                    err |-> FALSE], rows)

\* mutant: the last entry of the other mapping is not taken over
RECURSIVE DictUpdate_DropLast(_, _)
DictUpdate_DropLast(d, other) ==
    IF Len(other) <= 1 THEN d
    ELSE DictUpdate_DropLast(DictSet(d, Head(other).k, Head(other).v), Tail(other))

\* dict.update
RECURSIVE DictUpdate(_, _)
DictUpdate(d, other) ==
    IF other = <<>> THEN d
    ELSE DictUpdate(DictSet(d, Head(other).k, Head(other).v), Tail(other))

\* mutant: the series are taken from the last one to the first one
CurrentSeries_Reversed(list, count) == list[Len(list) + 1 - count]

\* lines 377-385: _download_raw_data is called for the run of every triple
\* of the linkage mapping, entry by entry; the call catches the failure of
\* _download_SRA_file (lines 513-518), so every call returns
DownloadOutcomes(table) == [1..Len(SubannotRows(table)) -> {"ok", "failed"}]
DownloadRawData(table, outcomes) ==
    [j \in 1..Len(SubannotRows(table)) |->
        [run |-> SubannotRows(table)[j][3], outcome |-> outcomes[j]]]

\* lines 267-274: the count-th series of the loop over acc_GSE_list.keys()
CurrentSeries(list, count) == list[count]

\* line 389: the series is written under its own accession
PerAccession(anno, nkeys) == anno /\ nkeys > 1

\* one iteration of the loop of line 270 (lines 270-395); a call of
\* _write_raw_annotation_new is recorded with its arguments, what the call
\* does with them is WriteRawAnnotation
ProcessAccession ==
    /\ pc = "fetch"
    /\ ncount < Len(acc_GSE_list)
    /\ ncount' = ncount + 1
    /\ LET series == CurrentSeries(acc_GSE_list, ncount + 1)
           sra == _get_SRA_meta(series.file_gse_content, series.gsm_metadata,
                                FileSra(series.acc_GSE), files, series.run_info)
           no_data == IF sra.result = False THEN TRUE ELSE sra.result.l = <<>>
       IN /\ sra_meta_log' = Append(sra_meta_log,
                                    [acc_SRP |-> sra.acc_SRP,
                                     requested |-> sra.requested,
                                     result |-> sra.result])
          /\ files' = sra.disk
          /\ warnings' = warnings \o sra.warnings
                         \o IF no_data THEN <<"No raw pep will be created! ....">>
                            ELSE <<>>
          /\ IF sra.result = False
             THEN \* line 425: the TypeError of "for line in False"
                  /\ pc' = "error"
                  /\ gsm_metadata' = series.gsm_metadata
                  /\ UNCHANGED <<srp_list_result, gsm_multi_table,
                                 metadata_dict_combined,
                                 subannotation_dict_combined,
                                 raw_annotation_calls, raw_data_calls>>
             ELSE LET res == _process_sra_meta(sra.result.l, series.gsm_metadata)
                  IN /\ srp_list_result' = sra.result.l
                     /\ gsm_metadata' = res.gsm_metadata
                     /\ gsm_multi_table' = res.gsm_multi_table
                     /\ IF res.err \/ just_metadata
                        THEN UNCHANGED raw_data_calls
                        ELSE \* lines 377-385
                             \E outcomes \in DownloadOutcomes(res.gsm_multi_table) :
                                raw_data_calls' =
                                   raw_data_calls
                                   \o DownloadRawData(res.gsm_multi_table, outcomes)
                     /\ IF res.err
                        THEN /\ pc' = "error"
                             /\ UNCHANGED <<metadata_dict_combined,
                                            subannotation_dict_combined,
                                            raw_annotation_calls>>
                        ELSE IF PerAccession(acc_anno, Len(acc_GSE_list))
                        THEN \* lines 389-390
                             /\ pc' = "fetch"
                             /\ raw_annotation_calls' =
                                   Append(raw_annotation_calls,
                                          [name |-> series.acc_GSE,
                                           metadata_dict |-> res.gsm_metadata,
                                           subannot_dict |-> res.gsm_multi_table])
                             /\ UNCHANGED <<metadata_dict_combined,
                                            subannotation_dict_combined>>
                        ELSE \* lines 393-395
                             /\ pc' = "fetch"
                             /\ metadata_dict_combined' =
                                   DictUpdate(metadata_dict_combined, res.gsm_metadata)
                             /\ subannotation_dict_combined' =
                                   DictUpdate(subannotation_dict_combined,
                                              res.gsm_multi_table)
                             /\ UNCHANGED raw_annotation_calls
    /\ UNCHANGED <<gsm_enter_dict, file_gsm_content, current_sample_id,
                   current_sample_srx, samples_list, split_experiments,
                   nameVars, metaVars, subannot_dict, return_value,
                   acc_GSE_list, discard_soft, acc_anno, NUM_RETRIES, t,
                   subprocess_returns, ntry, download_errors, just_metadata>>

\* lines 397-419: the loop is over and _write_raw_annotation_new is called
\* with the combined mappings; the call itself is WriteRawAnnotation
FinishLoop ==
    /\ pc = "fetch"
    /\ ncount = Len(acc_GSE_list)
    /\ metadata_dict' = metadata_dict_combined
    /\ subannot_dict' = subannotation_dict_combined
    /\ raw_annotation_calls' =
          Append(raw_annotation_calls,
                 [name |-> "PEP",
                  metadata_dict |-> metadata_dict_combined,
                  subannot_dict |-> subannotation_dict_combined])
    /\ pc' = "write"
    /\ UNCHANGED <<gsmVars, sraVars, nameVars, limits, meta_list,
                   new_meta_project, files, warnings, return_value,
                   acc_GSE_list, ncount, metadata_dict_combined,
                   subannotation_dict_combined, discard_soft, sra_meta_log,
                   acc_anno, dlVars>>

\* the series of the input
SeriesSrx(i, j) == "SRX" \o ToString(i) \o "00" \o ToString(j)
SeriesGsm(i, j) == "GSM" \o ToString(i) \o "00" \o ToString(j)
SeriesSamples(i, n) ==
    [j \in 1..n |->
        [k |-> SeriesSrx(i, j),
         v |-> SraRecord(SeriesGsm(i, j), SeriesSrx(i, j), <<"T", ToString(j)>>)]]
\* two runs of the first experiment of series i
SeriesRows(i) ==
    [r \in 1..2 |->
        [Experiment |-> SeriesSrx(i, 1), Run |-> "SRR" \o ToString(i) \o ToString(r),
         LibraryLayout |-> <<"PAIRED">>]]
GseWithoutProject == <<<<"!", "Series_title", " ", "=", " ", "t">>>>
GseWithProject(i) ==
    GseWithoutProject
    \o <<<<"!", "Series_relation", " ", "=", " ", "SRA", ":", " ",
           IF i % 2 = 1 THEN "SRP1001" ELSE "SRP1002">>>>
SeriesKinds(i) ==
    {[file_gse_content |-> GseWithProject(i), cached |-> FALSE, run_info |-> False],
     [file_gse_content |-> GseWithProject(i), cached |-> FALSE,
      run_info |-> List(SeriesRows(i))],
     [file_gse_content |-> GseWithoutProject, cached |-> FALSE, run_info |-> False],
     [file_gse_content |-> GseWithoutProject, cached |-> TRUE, run_info |-> False]}
Series(i) ==
    {[acc_GSE |-> "GSE" \o ToString(i),
      file_gse_content |-> kind.file_gse_content,
      gsm_metadata |-> SeriesSamples(i, n),
      cached |-> kind.cached,
      run_info |-> kind.run_info] : kind \in SeriesKinds(i), n \in 0..MaxSamples}

\* the _SRA.csv files an earlier run left empty
RECURSIVE CachedFiles(_)
CachedFiles(list) ==
    IF list = <<>> THEN <<>>
    ELSE (IF Head(list).cached
          THEN <<[k |-> FileSra(Head(list).acc_GSE), v |-> <<>>]>>
          ELSE <<>>) \o CachedFiles(Tail(list))

InitFetch ==
    /\ pc = "fetch"
    /\ \E m \in 1..MaxSeries :
          acc_GSE_list \in
             {f \in [1..m -> UNION {Series(i) : i \in 1..m}] :
                 \A i \in 1..m : f[i] \in Series(i)}
    /\ files = CachedFiles(acc_GSE_list)
    /\ discard_soft \in BOOLEAN
    /\ acc_anno \in BOOLEAN
    /\ raw_annotation_calls = <<>>
    /\ ncount = 0
    /\ metadata_dict_combined = <<>>
    /\ subannotation_dict_combined = <<>>
    /\ sra_meta_log = <<>>
    /\ subannot_dict = <<>>
    /\ warnings = <<>>
    /\ return_value = Unset
    /\ gsm_enter_dict = <<>>
    /\ file_gsm_content = <<>>
    /\ gsm_metadata = <<>>
    /\ current_sample_id = NoneId
    /\ current_sample_srx = FALSE
    /\ samples_list = <<>>
    /\ IdleSra
    /\ IdleName
    /\ IdleMeta
    /\ IdleDownload

NextFetch == ProcessAccession \/ FinishLoop

SpecFetch == InitFetch /\ [][NextFetch]_vars

\* fetch_all with the download of the raw data (just_metadata off), on
\* series whose run-info names one run of the first experiment, two runs of
\* it, or two runs of it and one of the second experiment
DownloadRows(i) ==
    {SubSeq(SeriesRows(i), 1, 1),
     SeriesRows(i),
     SeriesRows(i) \o <<[Experiment |-> SeriesSrx(i, 2),
                         Run |-> "SRR" \o ToString(i) \o "3",
                         LibraryLayout |-> <<"SINGLE">>]>>}
DownloadSeries(i) ==
    {[acc_GSE |-> "GSE" \o ToString(i),
      file_gse_content |-> GseWithProject(i),
      gsm_metadata |-> SeriesSamples(i, n),
      cached |-> FALSE,
      run_info |-> List(rows)] : rows \in DownloadRows(i), n \in 1..MaxSamples}

InitDownload ==
    /\ pc = "fetch"
    /\ \E m \in 1..MaxSeries :
          acc_GSE_list \in
             {f \in [1..m -> UNION {DownloadSeries(i) : i \in 1..m}] :
                 \A i \in 1..m : f[i] \in DownloadSeries(i)}
    /\ files = <<>>
    /\ discard_soft = FALSE
    /\ acc_anno = FALSE
    /\ raw_annotation_calls = <<>>
    /\ just_metadata = FALSE
    /\ raw_data_calls = <<>>
    /\ NUM_RETRIES = 3
    /\ t = 0
    /\ subprocess_returns = <<>>
    /\ ntry = 0
    /\ download_errors = <<>>
    /\ ncount = 0
    /\ metadata_dict_combined = <<>>
    /\ subannotation_dict_combined = <<>>
    /\ sra_meta_log = <<>>
    /\ subannot_dict = <<>>
    /\ warnings = <<>>
    /\ return_value = Unset
    /\ gsm_enter_dict = <<>>
    /\ file_gsm_content = <<>>
    /\ gsm_metadata = <<>>
    /\ current_sample_id = NoneId
    /\ current_sample_srx = FALSE
    /\ samples_list = <<>>
    /\ IdleSra
    /\ IdleName
    /\ IdleMeta

SpecDownload == InitDownload /\ [][NextFetch]_vars

\* fetch_all on series that contain the same samples: series i has the
\* accession and the project of its own, and the experiments of series 1
\* with one of the run-info tables of DownloadRows
SharedSeries(i) ==
    {[acc_GSE |-> "GSE" \o ToString(i),
      file_gse_content |-> GseWithProject(i),
      gsm_metadata |-> SeriesSamples(1, n),
      cached |-> FALSE,
      run_info |-> List(rows)] : rows \in DownloadRows(1), n \in 1..MaxSamples}

InitShared ==
    /\ pc = "fetch"
    /\ \E m \in 1..MaxSeries :
          acc_GSE_list \in
             {f \in [1..m -> UNION {SharedSeries(i) : i \in 1..m}] :
                 \A i \in 1..m : f[i] \in SharedSeries(i)}
    /\ files = <<>>
    /\ discard_soft = FALSE
    /\ acc_anno = FALSE
    /\ raw_annotation_calls = <<>>
    /\ ncount = 0
    /\ metadata_dict_combined = <<>>
    /\ subannotation_dict_combined = <<>>
    /\ sra_meta_log = <<>>
    /\ subannot_dict = <<>>
    /\ warnings = <<>>
    /\ return_value = Unset
    /\ gsm_enter_dict = <<>>
    /\ file_gsm_content = <<>>
    /\ gsm_metadata = <<>>
    /\ current_sample_id = NoneId
    /\ current_sample_srx = FALSE
    /\ samples_list = <<>>
    /\ IdleSra
    /\ IdleName
    /\ IdleMeta
    /\ IdleDownload

SpecShared == InitShared /\ [][NextFetch]_vars

\* --------------------------------------- _download_SRA_file (1243-1269)
\* what run_subprocess returns for an invocation of prefetch
ReturnCodes == {0, 1, 2, 3}

\* mutant: the number of invocations is not tested
RetriesExhausted_Never(count, limit) == FALSE

\* line 1261
RetriesExhausted(count, limit) == count >= limit

\* one iteration of the loop of line 1252: prefetch is invoked, the call
\* returns on 0, raises RuntimeError when the retries are exhausted and
\* sleeps before the next iteration otherwise
PrefetchAttempt ==
    /\ pc = "prefetch"
    /\ t <= MaxRetries
    /\ t' = t + 1
    /\ \E subprocess_return \in ReturnCodes :
          /\ subprocess_returns' = Append(subprocess_returns, subprocess_return)
          /\ pc' = IF subprocess_return = 0 THEN "prefetched"
                   ELSE IF RetriesExhausted(t', NUM_RETRIES) THEN "prefetch_error"
                   ELSE "prefetch"
    /\ UNCHANGED <<gsmVars, sraVars, nameVars, metaVars, writeVars, fetchVars,
                   NUM_RETRIES, ntry, download_errors, just_metadata,
                   raw_data_calls>>

InitPrefetch ==
    /\ pc = "prefetch"
    /\ NUM_RETRIES \in 1..MaxRetries
    /\ t = 0
    /\ subprocess_returns = <<>>
    /\ ntry = 0
    /\ download_errors = <<>>
    /\ just_metadata = TRUE
    /\ raw_data_calls = <<>>
    /\ gsm_enter_dict = <<>>
    /\ file_gsm_content = <<>>
    /\ gsm_metadata = <<>>
    /\ current_sample_id = NoneId
    /\ current_sample_srx = FALSE
    /\ samples_list = <<>>
    /\ IdleSra
    /\ IdleName
    /\ IdleMeta
    /\ IdleWrite
    /\ IdleFetch

NextPrefetch == PrefetchAttempt

\* the loop runs on: run_subprocess blocks until prefetch returns and
\* time.sleep returns
SpecPrefetch == InitPrefetch /\ [][NextPrefetch]_vars /\ WF_vars(PrefetchAttempt)

\* ------------------------------------ _download_processed_file (1756-1797)
True == [t |-> "bool", b |-> TRUE]
Raised(e) == [t |-> "raise", e |-> e]

GeoFolders == {<<>>, <<"geo">>}
\* what a call of _download_file does: it returns, or raises an IOError or
\* another exception
IOErrors == {"timed out", "connection refused", "no space left"}
OtherErrors == {"KeyboardInterrupt"}
DownloadResults == {"ok"} \cup IOErrors \cup OtherErrors

\* lines 1770-1774
EnterDownloadProcessed ==
    /\ pc = "processed"
    /\ \E geo_folder \in GeoFolders :
          pc' = IF geo_folder = <<>> THEN "exit" ELSE "download"
    /\ UNCHANGED <<gsmVars, sraVars, nameVars, metaVars, writeVars, fetchVars, dlVars>>

\* mutant: the function never gives up
GiveUp_Never(count) == FALSE

\* line 1796
GiveUp(count) == count > 4

\* one test of the loop condition of line 1779 and, when it holds, one
\* iteration (lines 1780-1797); when it does not hold the function ends
\* without a return statement
DownloadAttempt ==
    /\ pc = "download"
    /\ IF ntry < 10
       THEN \E result \in DownloadResults :
               IF result = "ok"
               THEN /\ pc' = "returned"
                    /\ return_value' = True
                    /\ UNCHANGED <<ntry, download_errors>>
               ELSE IF result \in OtherErrors
               THEN /\ pc' = "raised"
                    /\ return_value' = Raised(result)
                    /\ UNCHANGED <<ntry, download_errors>>
               ELSE /\ download_errors' = Append(download_errors, result)
                    /\ ntry' = ntry + 1
                    /\ IF GiveUp(ntry')
                       THEN pc' = "raised" /\ return_value' = Raised(result)
                       ELSE pc' = "download" /\ UNCHANGED return_value
       ELSE /\ pc' = "returned"
            /\ return_value' = None
            /\ UNCHANGED <<ntry, download_errors>>
    /\ UNCHANGED <<gsmVars, sraVars, nameVars, metaVars, subannot_dict, files,
                   warnings, fetchVars, NUM_RETRIES, t, subprocess_returns,
                   just_metadata, raw_data_calls>>

InitProcessed ==
    /\ pc = "processed"
    /\ gsm_enter_dict = <<>>
    /\ file_gsm_content = <<>>
    /\ gsm_metadata = <<>>
    /\ current_sample_id = NoneId
    /\ current_sample_srx = FALSE
    /\ samples_list = <<>>
    /\ IdleSra
    /\ IdleName
    /\ IdleMeta
    /\ IdleWrite
    /\ IdleFetch
    /\ IdleDownload

NextProcessed == EnterDownloadProcessed \/ DownloadAttempt

SpecProcessed == InitProcessed /\ [][NextProcessed]_vars

\* ------------------------------------------- properties of the assembler
DelimLine(g) == <<"^", "SAMPLE", " ", "=", " ", g>>
AttrLine(k, v) == <<"!", k, " ", "=", " ", v>>
IsAttrLine(l) == \E k \in AttrKeys, v \in AttrVals : l = AttrLine(k, v)

\* S: the accessions on the sample delimiter lines read so far
RawSamples == {g \in GsmIds : \E i \in 1..Len(file_gsm_content) :
                                 file_gsm_content[i] = DelimLine(g)}

\* the original GSM accession of every record of a mapping
SampleIdsOf(d) ==
    {IF "gsm_id" \in DOMAIN d[i].v THEN Concat(d[i].v["gsm_id"].s) ELSE d[i].k :
        i \in 1..Len(d)}

\* C1: the samples of the returned mapping, each named by its original GSM
\* accession, are S \cap F when the filter F is non-empty and S when it is
\* empty.
C1_ReturnedSamples ==
    pc = "done" =>
        SampleIdsOf(gsm_metadata) =
            IF DOMAIN gsm_enter_dict # {}
            THEN RawSamples \cap DOMAIN gsm_enter_dict
            ELSE RawSamples

\* the line consumed by a step of the loop
NewLine == file_gsm_content'[Len(file_gsm_content')]
ReadsLine == Len(file_gsm_content') = Len(file_gsm_content) + 1

\* the values of a bag entry, in order, whether scalar or list
ValuesOf(bag, key) ==
    IF key \notin DOMAIN bag THEN <<>>
    ELSE IF IsList(bag[key]) THEN bag[key].l
    ELSE <<bag[key]>>

\* C2: the step that re-keys the live sample GSMx leaves no key GSMx and a
\* key equal to the SRX token of the line, whose bag holds every attribute
\* accumulated so far, the one of this line included, plus gsm_id = GSMx.
C2_RekeyLossless ==
    [][(~current_sample_srx /\ current_sample_srx') =>
        LET gsm == current_sample_id
            srx == current_sample_id'
            old == DictGet(gsm_metadata, gsm)
            new == DictGet(gsm_metadata', srx)
            key == NewLine[2]
            val == Str(<<NewLine[6]>>)
        IN /\ IsAttrLine(NewLine)
           /\ srx = NewLine[6]
           /\ srx \in SrxTokens
           /\ ~DictHas(gsm_metadata', gsm)
           /\ DictHas(gsm_metadata', srx)
           /\ DOMAIN new = DOMAIN old \cup {key, "gsm_id"}
           /\ new["gsm_id"] = Str(<<gsm>>)
           /\ \A k \in DOMAIN old \ {key} : new[k] = old[k]
           /\ ValuesOf(new, key) = Append(ValuesOf(old, key), val)
    ]_vars

\* a sample that gathered an attribute has just been re-keyed
C2_Witness ==
    \E g \in GsmIds, k1, k2 \in AttrKeys, x \in SrxTokens :
        /\ file_gsm_content = <<DelimLine(g), AttrLine(k1, "v1"), AttrLine(k2, x)>>
        /\ pc = "read"
        /\ current_sample_srx
        /\ current_sample_id = x

\* C3: once the live sample is re-keyed, a later attribute line, whatever
\* SRX token it carries, keeps the record's key and gsm_id and accumulates
\* under that key; only a sample delimiter resets the re-keyed flag.
C3_RekeyOnce ==
    [][(current_sample_srx /\ current_sample_id # NoneId /\ ReadsLine) =>
        /\ IsAttrLine(NewLine) =>
              LET old == DictGet(gsm_metadata, current_sample_id)
                  new == DictGet(gsm_metadata', current_sample_id)
                  key == NewLine[2]
              IN /\ current_sample_id' = current_sample_id
                 /\ current_sample_srx'
                 /\ [i \in 1..Len(gsm_metadata) |-> gsm_metadata[i].k]
                       = [i \in 1..Len(gsm_metadata') |-> gsm_metadata'[i].k]
                 /\ new["gsm_id"] = old["gsm_id"]
                 /\ ValuesOf(new, key)
                       = Append(ValuesOf(old, key), Str(<<NewLine[6]>>))
        /\ ~current_sample_srx' =>
              \E g \in GsmIds : NewLine = DelimLine(g) /\ current_sample_id' = g
    ]_vars

\* a re-keyed sample has read a later line with a different SRX token
C3_Witness ==
    \E g \in GsmIds, k1, k2 \in AttrKeys, x, y \in SrxTokens :
        /\ x # y
        /\ file_gsm_content = <<DelimLine(g), AttrLine(k1, x), AttrLine(k2, y)>>
        /\ pc = "read"
        /\ current_sample_srx
        /\ current_sample_id = x

\* the lines of the live sample: those after the last delimiter line
LastDelim ==
    LET D == {i \in 1..Len(file_gsm_content) : file_gsm_content[i][1] = "^"}
    IN CHOOSE i \in D : \A j \in D : j <= i
LiveLines == SubSeq(file_gsm_content, LastDelim + 1, Len(file_gsm_content))

\* the values of key K on the lines of the live sample, in line order
RECURSIVE LineValues(_, _)
LineValues(ls, K) ==
    IF ls = <<>> THEN <<>>
    ELSE IF IsAttrLine(Head(ls)) /\ Head(ls)[2] = K
         THEN <<Str(<<Head(ls)[6]>>)>> \o LineValues(Tail(ls), K)
         ELSE LineValues(Tail(ls), K)

\* C4: before list resolution the record of the live sample holds, for every
\* attribute key K read on k lines with values v1..vk, K = v1 when k = 1 and
\* K = [v1..vk] when k >= 2, a pre-initialised key included.
C4_RepeatedAttributes ==
    (pc = "read" /\ current_sample_id # NoneId) =>
        LET bag == DictGet(gsm_metadata, current_sample_id) IN
        \A K \in AttrKeys :
            LET vs == LineValues(LiveLines, K) IN
            /\ Len(vs) = 1 => K \in DOMAIN bag /\ bag[K] = vs[1]
            /\ Len(vs) >= 2 => K \in DOMAIN bag /\ bag[K] = List(vs)

\* ------------------------------------------ properties of the reconciler
Experiments == {"SRX1001", "SRX1002", "SRX1003"}

\* the run ids of the rows consumed so far for experiment X, in order
RunsOf(X) ==
    LET rows == SelectSeq(srp_list_result, LAMBDA line : line.Experiment = X)
    IN [i \in 1..Len(rows) |-> rows[i].Run]

Reconciling == pc \in {"sra", "sra_done"}

\* C5: non-split mode, N >= 2 run rows of an experiment X of the sample
\* table: SRR of X is "multi" and the linkage entry of X is exactly the N
\* rows [sample_name, X, SRRi] in the order of the runs, with one sample_name.
C5_NonSplitMulti ==
    Reconciling /\ ~split_experiments =>
        \A X \in Experiments :
            (DictHas(gsm_metadata, X) /\ Len(RunsOf(X)) >= 2) =>
                LET rec == DictGet(gsm_metadata, X) IN
                /\ rec["SRR"] = Str(<<"multi">>)
                /\ DictHas(gsm_multi_table, X)
                /\ DictGet(gsm_multi_table, X) =
                      [i \in 1..Len(RunsOf(X)) |->
                          <<rec["sample_name"].s, <<X>>, <<RunsOf(X)[i]>>>>]

\* three runs of one experiment interleaved with a row of another one
C5_Witness ==
    /\ Reconciling /\ ~split_experiments
    /\ RunsOf("SRX1001") = <<"SRR1", "SRR2", "SRR3">>
    /\ Len(RunsOf("SRX1002")) = 1
    /\ srp_list_result[2].Experiment = "SRX1002"
    /\ DictHas(gsm_metadata, "SRX1001")
    /\ DictHas(gsm_metadata, "SRX1002")

Distinct(seq) == \A i, j \in 1..Len(seq) : i # j => seq[i] # seq[j]

C7_LinkageOnlyMultiRun ==
    Reconciling =>
        /\ DictKeys(gsm_multi_table) \subseteq Experiments
        /\ \A X \in Experiments :
              LET processed == IF DictHas(gsm_metadata, X) THEN RunsOf(X) ELSE <<>>
              IN /\ DictHas(gsm_multi_table, X) <=> Len(processed) >= 2
                 /\ DictHas(gsm_multi_table, X) =>
                       /\ Len(DictGet(gsm_multi_table, X)) >= 2
                       /\ DictGet(gsm_multi_table, X)[1][3] = <<processed[1]>>
                 /\ Len(processed) = 1 =>
                       DictGet(gsm_metadata, X)["SRR"] = Str(<<processed[1]>>)

\* one experiment with a single run next to one with two runs
C7_Witness ==
    /\ Reconciling
    /\ Len(RunsOf("SRX1001")) = 1
    /\ Len(RunsOf("SRX1002")) = 2
    /\ DictHas(gsm_multi_table, "SRX1002")
    /\ ~DictHas(gsm_multi_table, "SRX1001")
    /\ DictHas(gsm_metadata, "SRX1001")

\* the name the filter or the title gives to the sample of record rec
ExpectedName(rec) ==
    LET gsm == Concat(rec["gsm_id"].s) IN
    IF gsm \in DOMAIN gsm_enter_dict /\ gsm_enter_dict[gsm] # <<>>
    THEN gsm_enter_dict[gsm]
    ELSE _sanitize_name(rec["Sample_title"].s)

\* C8: after a processed run row the sample_name of the record and of its
\* linkage triples is the filter's display name of the record's gsm_id when
\* that name is non-empty, and the name derived from the title otherwise.
C8_SampleNameResolution ==
    Reconciling =>
        \A X \in Experiments :
            (DictHas(gsm_metadata, X) /\ Len(RunsOf(X)) >= 1) =>
                LET rec == DictGet(gsm_metadata, X) IN
                /\ rec["sample_name"] = Str(ExpectedName(rec))
                /\ DictHas(gsm_multi_table, X) =>
                      \A i \in 1..Len(DictGet(gsm_multi_table, X)) :
                          DictGet(gsm_multi_table, X)[i][1] = ExpectedName(rec)

\* one sample named by the filter and one, with an empty display name, by
\* its title, the second with a linkage entry
C8_Witness ==
    /\ Reconciling
    /\ DOMAIN gsm_enter_dict = {"GSM1", "GSM2"}
    /\ gsm_enter_dict["GSM1"] # <<>>
    /\ gsm_enter_dict["GSM2"] = <<>>
    /\ Len(RunsOf("SRX1001")) >= 1
    /\ DictHas(gsm_multi_table, "SRX1002")
    /\ DictGet(gsm_metadata, "SRX1001")["sample_name"] = Str(<<"S", "1">>)
    /\ DictGet(gsm_metadata, "SRX1002")["sample_name"] = Str(<<"T", "2">>)

\* ---------------------------------------------- properties of _sanitize_name
HasDoubleUnderscore(s) == \E i \in 1..(Len(s) - 1) : s[i] = "_" /\ s[i + 1] = "_"

\* C9: a sanitized name has no space, no comma and no doubled underscore,
\* for every title.
C9_SanitizedName ==
    pc = "sanitized" =>
        /\ \A i \in 1..Len(new_str) : new_str[i] \notin {" ", ","}
        /\ ~HasDoubleUnderscore(new_str)

\* ------------------------------------ properties of _separate_common_meta
\* key is on every sample of the mapping passed in, with one value
ConstantOnAll(key) ==
    /\ \A n \in 1..Len(metadata_dict) : key \in DOMAIN metadata_dict[n].v
    /\ \A n \in 1..Len(metadata_dict) :
          metadata_dict[n].v[key] = metadata_dict[1].v[key]

ProjectKeys == {new_meta_project[i].k : i \in 1..Len(new_meta_project)}
RemovedEverywhere(key) ==
    \A n \in 1..Len(meta_list) : key \notin DOMAIN meta_list[n].v
KeptEverywhere(key) ==
    \A n \in 1..Len(meta_list) : key \in DOMAIN meta_list[n].v

\* C10 as stated: every constant key of length <= del_limit is hoisted and
\* removed from every sample, whatever its length below that bound; a
\* longer one is removed and not hoisted.
C10_HoistWhateverLength ==
    pc = "meta_done" =>
        \A key \in MetaKeys :
            ConstantOnAll(key) =>
                LET n == str_len(metadata_dict[1].v[key]) IN
                /\ n <= limits.del_limit =>
                      key \in ProjectKeys /\ RemovedEverywhere(key)
                /\ n > limits.del_limit =>
                      key \notin ProjectKeys /\ RemovedEverywhere(key)

\* C10 amended: a constant key is hoisted and removed when its length is
\* from max_len to del_limit, removed and not hoisted when it is longer than
\* del_limit, and kept on every sample and not hoisted when it is shorter
\* than max_len.
C10_HoistFromMaxLen ==
    pc = "meta_done" =>
        \A key \in MetaKeys :
            ConstantOnAll(key) =>
                LET n == str_len(metadata_dict[1].v[key]) IN
                /\ (limits.max_len <= n /\ n <= limits.del_limit) =>
                      key \in ProjectKeys /\ RemovedEverywhere(key)
                /\ n > limits.del_limit =>
                      key \notin ProjectKeys /\ RemovedEverywhere(key)
                /\ n < limits.max_len =>
                      key \notin ProjectKeys /\ KeptEverywhere(key)

\* two samples: one constant key hoisted, the other constant key too short
C10_Witness ==
    /\ pc = "meta_done"
    /\ Len(metadata_dict) = 2
    /\ ConstantOnAll("k1") /\ ConstantOnAll("k2")
    /\ str_len(metadata_dict[1].v["k1"]) = limits.del_limit
    /\ str_len(metadata_dict[1].v["k2"]) < limits.max_len
    /\ "k1" \in ProjectKeys /\ RemovedEverywhere("k1")
    /\ "k2" \notin ProjectKeys /\ KeptEverywhere("k2")

\* the value of key on sample n of the mapping passed in, a sample lacking
\* the key counting as having the empty value
ValueOrEmpty(n, key) ==
    IF key \in DOMAIN metadata_dict[n].v THEN metadata_dict[n].v[key]
    ELSE Str(<<>>)

\* key was on sample n and is no longer on it
RemovedFrom(n, key) ==
    /\ key \in DOMAIN metadata_dict[n].v
    /\ key \notin DOMAIN meta_list[n].v

\* C11: a key is removed from a sample only when its value is equal on every
\* sample, a sample lacking the key counting as having the empty value; a
\* key that differs on some sample, or is on some samples and not on others,
\* is removed from no sample.
C11_RemovedOnlyWhenEqual ==
    pc = "meta_done" =>
        \A key \in MetaKeys :
            (\E n \in 1..Len(metadata_dict) : RemovedFrom(n, key)) =>
                \A n, m \in 1..Len(metadata_dict) :
                    ValueOrEmpty(n, key) = ValueOrEmpty(m, key)

\* C12: a value kept on a sample is cut to attr_limit_truncate characters
\* followed by " ..." when it is longer than attr_limit_truncate, and is
\* unchanged when its length is attr_limit_truncate or less.
C12_TruncateOnlyLonger ==
    pc = "meta_done" =>
        \A n \in 1..Len(meta_list) :
            \A key \in DOMAIN meta_list[n].v \ {"big_key"} :
                LET old == metadata_dict[n].v[key]
                    new == meta_list[n].v[key]
                IN IF str_len(old) > limits.attr_limit_truncate
                   THEN new = Str(SubSeq(old.s, 1, limits.attr_limit_truncate)
                                  \o <<" ", ".", ".", ".">>)
                   ELSE new = old

\* ------------------------- properties of _write_raw_annotation_new
\* C13: after _check_sample_name_standard and _separate_common_meta inside
\* _write_raw_annotation_new every sample record has the same key set.
C13_SameKeySet ==
    pc = "written" =>
        \A n, m \in 1..Len(meta_list) :
            DOMAIN meta_list[n].v = DOMAIN meta_list[m].v

\* the sample table on disk
SampleTable == DictGet(files, "proj_root_sample")
Columns(table) == {table.header[j] : j \in 1..Len(table.header)}

\* C14: the sample table written by _write_gsm_annotation has one row per
\* sample record and its column set is the union of the keys of all the
\* sample records it was given, so an attribute carried by a non-first
\* sample only has a column.
C14_ColumnsAreUnion ==
    (pc = "written" /\ ~NoRawData(metadata_dict)) =>
        /\ Len(SampleTable.rows) = Len(meta_list)
        /\ Columns(SampleTable) =
              UNION {DOMAIN meta_list[n].v : n \in 1..Len(meta_list)}

\* one fixed order of a set of keys
FixedOrder(S) == CHOOSE f \in Perms(S) : TRUE

\* C15: the written sample table, subannotation table and project
\* attributes, the order of columns and of project attributes included, are
\* the same for every iteration order of _get_list_of_keys: they are the
\* ones of one fixed order.
C15_OrderIndependent ==
    (pc = "written" /\ ~NoRawData(metadata_dict)) =>
        LET set_of_keys == _get_list_of_keys(_dict_to_list(metadata_dict))
        IN files = WriteFiles(metadata_dict, subannot_dict, limits,
                              FixedOrder(set_of_keys),
                              FixedOrder({StdColname(key) : key \in set_of_keys})
                             ).written

\* C20: called with an empty mapping _write_raw_annotation_new writes no
\* file, logs a warning, returns None and does not raise.
C20_EmptyWritesNothing ==
    (pc # "write" /\ metadata_dict = <<>>) =>
        /\ pc = "written"
        /\ files = <<>>
        /\ Len(warnings) = 1
        /\ return_value = None

\* the call returned on an empty mapping and a non-empty linkage mapping
C20_Witness ==
    /\ pc = "written"
    /\ metadata_dict = <<>>
    /\ subannot_dict # <<>>
    /\ files = <<>>
    /\ warnings # <<>>

\* ----------------------------------------- properties of list resolution
\* an element parses as "subkey: subvalue" with a subkey of at most 40
\* characters and without "("
Qualifies(elem) ==
    LET parts == SplitColon(elem.s, <<>>) IN
    /\ Len(parts) >= 2
    /\ StrLen(parts[1]) <= 40
    /\ \A i \in 1..Len(parts[1]) : parts[1][i] # "("
SubkeyOf(elem) == Concat(SplitColon(elem.s, <<>>)[1])
SubvalueOf(elem) ==
    LET at == IndexOf(elem.s, ":", 1) IN Str(SubSeq(elem.s, at + 2, Len(elem.s)))
RECURSIVE CommaJoined(_)
CommaJoined(elems) ==
    IF Len(elems) = 1 THEN elems[1].s
    ELSE elems[1].s \o <<",", " ">> \o CommaJoined(Tail(elems))

\* C16: a list-valued field of which every element qualifies is replaced by
\* one column per subkey; a list-valued field with an element that does not
\* qualify creates no subkey column and becomes all of its elements, in
\* order, joined with ", ".
C16_ListResolution ==
    pc = "expanded" =>
        \A n \in 1..Len(metadata_dict) :
            LET old == metadata_dict[n].v
                new == meta_list[n].v
            IN IsList(old[ListField]) =>
                  LET elems == old[ListField].l IN
                  IF \A i \in 1..Len(elems) : Qualifies(elems[i])
                  THEN /\ DOMAIN new = {"big_key"}
                                       \cup {SubkeyOf(elems[i]) : i \in 1..Len(elems)}
                       /\ \A i \in 1..Len(elems) :
                             \E j \in i..Len(elems) :
                                /\ SubkeyOf(elems[j]) = SubkeyOf(elems[i])
                                /\ new[SubkeyOf(elems[i])] = SubvalueOf(elems[j])
                  ELSE /\ DOMAIN new = {"big_key", ListField}
                       /\ new[ListField] = Str(CommaJoined(elems))

\* ------------------------------------------------ properties of fetch_all
\* the GSE document of a series names no project accession
NoProject(series) == FindProject(series.file_gse_content) = NoneId
\* the series that fetch_all takes next
NextSeries == acc_GSE_list[ncount + 1]
TakesSeries == pc = "fetch" /\ ncount < Len(acc_GSE_list)
SampleKeys(series) == DictKeys(series.gsm_metadata)

\* C17: on a series with more than one assembled sample and no project
\* accession in its GSE document, fetch_all does not raise, logs a warning,
\* puts none of the samples of the series into the combined sample mapping
\* and goes on with the next series.
C17_MissingLinkSkipped ==
    [][(TakesSeries /\ NoProject(NextSeries)
        /\ Len(NextSeries.gsm_metadata) > 1) =>
          /\ pc' = "fetch"
          /\ ncount' = ncount + 1
          /\ Len(warnings') > Len(warnings)
          /\ SampleKeys(NextSeries) \cap DictKeys(metadata_dict_combined') = {}]_vars

\* the run-info request of the i-th series taken failed and _get_SRA_meta
\* returned False
FetchFailed(i) ==
    /\ i <= Len(sra_meta_log)
    /\ sra_meta_log[i].requested
    /\ sra_meta_log[i].result = False

\* C18: when the run-info request of a series fails, fetch_all does not
\* raise, takes every later series, and the samples of the series whose
\* request did not fail are in the combined mapping it writes.
C18_FailureKeepsSiblings ==
    (\E i \in 1..Len(acc_GSE_list) : FetchFailed(i)) =>
        /\ pc # "error"
        /\ pc = "write" =>
              /\ ncount = Len(acc_GSE_list)
              /\ \A j \in 1..Len(acc_GSE_list) :
                    (sra_meta_log[j].requested /\ ~FetchFailed(j)) =>
                        SampleKeys(acc_GSE_list[j]) \subseteq DictKeys(metadata_dict)

\* C19: for a series without project accession and with exactly one record
\* _get_SRA_meta takes the key of that record in place of the SRP accession
\* and, no _SRA.csv file being on disk, requests run-info for it; with two
\* or more records it takes no accession and sends no request.
C19_SingleSampleFallback ==
    \A i \in 1..Len(sra_meta_log) :
        LET series == acc_GSE_list[i] IN
        NoProject(series) =>
            /\ Len(series.gsm_metadata) = 1 =>
                  /\ sra_meta_log[i].acc_SRP = series.gsm_metadata[1].k
                  /\ ~series.cached => sra_meta_log[i].requested
            /\ Len(series.gsm_metadata) >= 2 =>
                  /\ sra_meta_log[i].acc_SRP = NoneId
                  /\ ~sra_meta_log[i].requested

\* ------------------------------------- unresolved experiments of the run info
\* the run-info row consumed by a step of the reconciler
NewRow == srp_list_result'[Len(srp_list_result')]
ReadsRow == Len(srp_list_result') = Len(srp_list_result) + 1

\* C21: a run-info row whose Experiment is not a key of the sample mapping
\* leaves the sample mapping and the linkage table unchanged and the loop
\* goes on to the next row.
C21_UnresolvedExperimentSkipped ==
    [][(pc = "sra" /\ ReadsRow /\ ~DictHas(gsm_metadata, NewRow.Experiment)) =>
        /\ gsm_metadata' = gsm_metadata
        /\ gsm_multi_table' = gsm_multi_table
        /\ pc' = "sra"
    ]_vars

\* a row of an experiment outside the mapping was followed by a processed row
C21_Witness ==
    /\ pc = "sra"
    /\ Len(srp_list_result) = 2
    /\ ~DictHas(gsm_metadata, srp_list_result[1].Experiment)
    /\ DictHas(gsm_metadata, srp_list_result[2].Experiment)
    /\ DictGet(gsm_metadata, srp_list_result[2].Experiment)["SRR"]
          = Str(<<srp_list_result[2].Run>>)

\* ------------------------------------------- lines the assembler cannot use
\* a non-blank line that parse_SOFT_line cannot split
Unparsable(raw) == Len(rstrip(raw)) > 0 /\ ~parse_SOFT_line(rstrip(raw)).ok

\* C22: an unparsable line, be it an attribute line inside a sample or a
\* line starting with "^", is skipped: the mapping is unchanged and the loop
\* goes on to the next line, so no parse failure ends _read_gsm_metadata.
C22_MalformedLineSkipped ==
    [][(pc = "read" /\ ReadsLine /\ Unparsable(NewLine)) =>
        /\ gsm_metadata' = gsm_metadata
        /\ pc' = "read"
    ]_vars

\* no sample is live: no delimiter line was read yet, or the last one read
\* names a sample that a non-empty filter excludes
Idle ==
    LET D == {i \in 1..Len(file_gsm_content) : file_gsm_content[i][1] = "^"}
    IN \/ D = {}
       \/ /\ DOMAIN gsm_enter_dict # {}
          /\ \E g \in GsmIds \ DOMAIN gsm_enter_dict :
                file_gsm_content[LastDelim] = DelimLine(g)

\* C23: an attribute line read while no sample is live leaves the mapping
\* unchanged: no record is added, none is modified and none is re-keyed,
\* even when the line carries an SRX token; the assembler stays idle.
C23_IdleLinesIgnored ==
    [][(pc = "read" /\ ReadsLine /\ Idle /\ NewLine[1] \notin {"^", " "}) =>
        /\ gsm_metadata' = gsm_metadata
        /\ current_sample_id' = NoneId
        /\ current_sample_srx' = current_sample_srx
        /\ samples_list' = samples_list
        /\ pc' = "read"
    ]_vars

\* lines with SRX tokens were read before the first delimiter and after the
\* delimiter of an excluded sample that follows an accepted one
C23_Witness ==
    \E k \in AttrKeys :
        /\ pc = "read"
        /\ DOMAIN gsm_enter_dict = {"GSM1"}
        /\ file_gsm_content = <<AttrLine(k, "SRX1002"), DelimLine("GSM1"),
                                DelimLine("GSM2"), AttrLine(k, "SRX1001")>>
        /\ DictKeys(gsm_metadata) = {"GSM1"}
        /\ current_sample_id = NoneId

\* ---------------------------------------- experiments without run-info row
\* the record still holds the placeholders of the sample delimiter
Placeholders(rec) ==
    /\ rec["SRR"] = None
    /\ rec["SRX"] = None
    /\ rec["data_source"] = None

\* the mapping that received the records of the series taken last: the
\* combined mapping, or the one written under the accession of the series
MergedInto ==
    IF raw_annotation_calls # <<>>
    THEN raw_annotation_calls[Len(raw_annotation_calls)].metadata_dict
    ELSE metadata_dict_combined

SubsampleFile == DictGet(files, "proj_root_subsample")
ConfigFile == DictGet(files, "proj_root_yaml")

\* the number of triples of the first n entries of a linkage mapping
RECURSIVE TriplesBefore(_, _)
TriplesBefore(table, n) ==
    IF n = 0 THEN 0 ELSE TriplesBefore(table, n - 1) + Len(table[n].v)

\* C25: a call that wrote the project writes the subannotation file iff the
\* linkage mapping is not empty; with an empty mapping there is no such file
\* and the config names no subsample table; a file written holds the header
\* sample_name,SRX,SRR and then one row per linkage triple, entry by entry.
C25_SubannotationIffLinkage ==
    (pc = "written" /\ metadata_dict # <<>>) =>
        /\ DictHas(files, "proj_root_subsample") <=> subannot_dict # <<>>
        /\ ConfigFile.subannotation # <<>> <=> subannot_dict # <<>>
        /\ subannot_dict # <<>> =>
              /\ SubsampleFile.header = <<"sample_name", "SRX", "SRR">>
              /\ Len(SubsampleFile.rows)
                    = TriplesBefore(subannot_dict, Len(subannot_dict))
              /\ \A i \in 1..Len(subannot_dict) :
                    \A j \in 1..Len(subannot_dict[i].v) :
                        SubsampleFile.rows[TriplesBefore(subannot_dict, i - 1) + j]
                           = subannot_dict[i].v[j]

\* a project was written with a linkage mapping of two entries, of two and
\* of three triples
C25_Witness ==
    /\ pc = "written"
    /\ metadata_dict # <<>>
    /\ Len(subannot_dict) = 2
    /\ Len(SubsampleFile.rows) = 5
    /\ DictHas(files, "proj_root_sample")

\* ------------------------------------------ the rows of the linkage table
\* the rows that _write_subannotation writes for experiment X from the
\* linkage table of the reconciler
RowsOf(X) ==
    SelectSeq(_write_subannotation(gsm_multi_table).rows,
              LAMBDA row : row[2] = <<X>>)

\* C26: the subannotation table holds one row per run beyond the first of
\* an experiment: for N >= 2 processed runs of X it has N - 1 rows of X and
\* none of them carries the first run.
C26_RowsBeyondFirst ==
    Reconciling =>
        \A X \in Experiments :
            (DictHas(gsm_metadata, X) /\ Len(RunsOf(X)) >= 2) =>
                /\ Len(RowsOf(X)) = Len(RunsOf(X)) - 1
                /\ \A i \in 1..Len(RowsOf(X)) : RowsOf(X)[i][3] # <<RunsOf(X)[1]>>

\* C26, as the code has it: the subannotation table holds one row per run
\* of an experiment with N >= 2 processed runs, the first run included: N
\* rows of X, the i-th carrying the i-th run, the first run on the first row.
C26_RowPerRun ==
    Reconciling =>
        \A X \in Experiments :
            (DictHas(gsm_metadata, X) /\ Len(RunsOf(X)) >= 2) =>
                /\ Len(RowsOf(X)) = Len(RunsOf(X))
                /\ \A i \in 1..Len(RowsOf(X)) : RowsOf(X)[i][3] = <<RunsOf(X)[i]>>

\* three distinct runs of one experiment, met before a run of another one,
\* were processed and their rows are in the table
C26_Witness ==
    /\ Reconciling
    /\ RunsOf("SRX1001") = <<"SRR1", "SRR2", "SRR3">>
    /\ Len(RunsOf("SRX1002")) = 1
    /\ DictHas(gsm_metadata, "SRX1001")
    /\ Len(RowsOf("SRX1001")) = 3
    /\ srp_list_result[1].Experiment = "SRX1001"

\* ------------------------------------------- one annotation per accession
\* C27: with acc_anno set, fetch_all calls the writer once per series under
\* the accession of the series with the samples of that series, whatever the
\* number of series, one included, and merges the samples of no series into
\* the combined mapping, so that no combined annotation is written.
C27_PerAccessionOnly ==
    (acc_anno /\ pc = "write") =>
        /\ metadata_dict_combined = <<>>
        /\ \A i \in 1..Len(acc_GSE_list) :
              /\ raw_annotation_calls[i].name = acc_GSE_list[i].acc_GSE
              /\ DictKeys(raw_annotation_calls[i].metadata_dict)
                    = SampleKeys(acc_GSE_list[i])
        /\ raw_annotation_calls[Len(raw_annotation_calls)].metadata_dict = <<>>

\* ------------------------------------------------- the order of the series
\* the keys of the records of a series, in the order of its sample table
SeriesKeySeq(series) ==
    [j \in 1..Len(series.gsm_metadata) |-> series.gsm_metadata[j].k]

\* the keys of the records of the first n series of the input, in order
RECURSIVE KeysUpTo(_)
KeysUpTo(n) ==
    IF n = 0 THEN <<>> ELSE KeysUpTo(n - 1) \o SeriesKeySeq(acc_GSE_list[n])

\* the loop takes the next series of the input and finishes with it
TakesNextSeries ==
    /\ ncount < Len(acc_GSE_list)
    /\ ncount' = ncount + 1
    /\ Len(sra_meta_log') = ncount'
    /\ sra_meta_log'[ncount'].acc_SRP
          = FindProject(acc_GSE_list[ncount'].file_gse_content)
    /\ (pc' = "fetch" /\ ~acc_anno) =>
          [j \in 1..Len(metadata_dict_combined') |-> metadata_dict_combined'[j].k]
             = KeysUpTo(ncount')
    /\ (pc' = "fetch" /\ acc_anno /\ Len(acc_GSE_list) > 1) =>
          [j \in 1..Len(raw_annotation_calls') |-> raw_annotation_calls'[j].name]
             = [j \in 1..ncount' |-> acc_GSE_list[j].acc_GSE]

\* the combined mappings are handed to the writer
WritesCombined ==
    /\ ncount = Len(acc_GSE_list)
    /\ ncount' = ncount
    /\ pc' = "write"
    /\ metadata_dict_combined' = metadata_dict_combined
    /\ raw_annotation_calls'[Len(raw_annotation_calls')]
          = [name |-> "PEP", metadata_dict |-> metadata_dict_combined,
             subannot_dict |-> subannotation_dict_combined]

\* C28: fetch_all takes the series in the order of the input, one at a
\* time: after each series the combined mapping holds the records of the
\* series taken so far, in that order, and none of a later series; the
\* combined mappings are passed to the writer only when the last series of
\* the input has been taken and merged.
C28_SeriesInOrder ==
    [][pc = "fetch" => (TakesNextSeries \/ WritesCombined)]_vars

\* two series with samples were merged, the first one first, and the
\* combined mapping was handed to the writer
C28_Witness ==
    /\ pc = "write"
    /\ ~acc_anno
    /\ Len(acc_GSE_list) = 2
    /\ Len(acc_GSE_list[1].gsm_metadata) = 2
    /\ Len(acc_GSE_list[2].gsm_metadata) = 1
    /\ metadata_dict = metadata_dict_combined
    /\ [j \in 1..3 |-> metadata_dict[j].k]
          = <<SeriesSrx(1, 1), SeriesSrx(1, 2), SeriesSrx(2, 1)>>

\* ------------------------------------------- reading the sample table back
\* the records a reader of the table gets: for every row the columns of the
\* header with the values of the row
ReadBack(table) ==
    [n \in 1..Len(table.rows) |->
        [key \in Columns(table) |->
            table.rows[n][CHOOSE j \in 1..Len(table.header) : table.header[j] = key]]]

\* C29: the table written by _write_gsm_annotation, read back, gives for
\* every sample the keys and the values of the record that was written (the
\* record left after hoisting), whatever the key sets of the records.
C29_SampleTableRoundTrip ==
    (pc = "written" /\ metadata_dict # <<>>) =>
        /\ Len(ReadBack(SampleTable)) = Len(meta_list)
        /\ \A n \in 1..Len(meta_list) :
              /\ DOMAIN ReadBack(SampleTable)[n] = DOMAIN meta_list[n].v
              /\ \A key \in DOMAIN meta_list[n].v :
                    ReadBack(SampleTable)[n][key] = meta_list[n].v[key]

\* ------------------------------------------------ the order of the records
\* the sample a record of the mapping belongs to
SampleOf(entry) ==
    IF "gsm_id" \in DOMAIN entry.v THEN Concat(entry.v["gsm_id"].s) ELSE entry.k

\* the positions of the delimiter lines of sample g in the document read
DelimitersOf(g) ==
    {i \in 1..Len(file_gsm_content) : file_gsm_content[i] = DelimLine(g)}

\* every sample of the document has one delimiter line
OneDelimiterEach ==
    \A g \in {"GSM1", "GSM2", "GSM3"} : Cardinality(DelimitersOf(g)) <= 1

\* C30: the mapping returned for a document in which every sample has one
\* delimiter line lists the records in the order of the delimiter lines of
\* their samples, re-keyed or not.
C30_DelimiterOrder ==
    (pc = "done" /\ OneDelimiterEach) =>
        \A p1, p2 \in 1..Len(gsm_metadata) :
            p1 < p2 =>
                \A i \in DelimitersOf(SampleOf(gsm_metadata[p1])),
                   j \in DelimitersOf(SampleOf(gsm_metadata[p2])) : i < j

\* ------------------------------------------------- one record per sample
\* C31: while a series is assembled the mapping holds one record per sample
\* delimiter accepted so far, each the record of the sample of that
\* delimiter: no record is overwritten or replaced by the delimiter or the
\* re-keying of another sample, also when two samples carry one SRX token or
\* a GSM accession repeats.
C31_OneRecordPerSample ==
    pc = "read" =>
        /\ Len(gsm_metadata) = Len(samples_list)
        /\ \A n \in 1..Len(gsm_metadata) :
              SampleOf(gsm_metadata[n]) = samples_list[n]

\* --------------------------------------------------- the computed fields
\* the protocol of a record with the given library strategy and selection
ExpectedProtocol(strategy, selection) ==
    IF strategy = <<"Bisulfite-Seq">>
       /\ selection \in {<<"Reduced", " ", "Representation">>,
                         <<"reduced", " ", "representation">>}
    THEN <<"RRBS">>
    ELSE IF strategy = <<"Bisulfite-Seq">>
            /\ selection \in {<<"RANDOM">>, <<"Random">>, <<"random">>}
    THEN <<"WGBS">>
    ELSE selection

\* C32: once a run row of experiment X was processed, and after every
\* further row of X, the record of X has read_type = the LibraryLayout of
\* the row, organism = its organism field, data_source = "SRA", SRX = X and
\* protocol = its library selection, or RRBS / WGBS for a Bisulfite-Seq
\* strategy with the selection "reduced representation" / "random" in any
\* case of letters.
C32_ComputedFields ==
    Reconciling =>
        \A X \in Experiments :
            (DictHas(gsm_metadata, X) /\ Len(RunsOf(X)) >= 1) =>
                LET rec == DictGet(gsm_metadata, X)
                    rows == SelectSeq(srp_list_result,
                                      LAMBDA line : line.Experiment = X)
                IN /\ rec["read_type"] = Str(rows[Len(rows)].LibraryLayout)
                   /\ rec["organism"] = rec["Sample_organism_ch1"]
                   /\ rec["data_source"] = Str(<<"SRA">>)
                   /\ rec["SRX"] = Str(<<X>>)
                   /\ rec["protocol"] =
                         Str(ExpectedProtocol(rec["Sample_library_strategy"].s,
                                              rec["Sample_library_selection"].s))

\* a Bisulfite-Seq record with the selection "Reduced Representation" has
\* seen three runs of its experiment and is refined to RRBS
C32_Witness ==
    /\ Reconciling
    /\ Len(RunsOf("SRX1001")) = 3
    /\ DictGet(gsm_metadata, "SRX1001")["Sample_library_selection"]
          = Str(<<"Reduced", " ", "Representation">>)
    /\ DictGet(gsm_metadata, "SRX1001")["protocol"] = Str(<<"RRBS">>)

\* ----------------------------------------- the retries of _download_SRA_file
\* what holds of the invocations made so far
PrefetchBounded ==
    /\ t = Len(subprocess_returns)
    /\ t <= NUM_RETRIES
    /\ \A i \in 1..(t - 1) : subprocess_returns[i] # 0
    /\ pc = "prefetched" <=> (t >= 1 /\ subprocess_returns[t] = 0)
    /\ pc = "prefetch_error" <=>
          (t = NUM_RETRIES /\ \A i \in 1..t : subprocess_returns[i] # 0)

\* C33: for NUM_RETRIES >= 1 _download_SRA_file invokes prefetch at most
\* NUM_RETRIES times, stops at the first invocation that returns 0, raises
\* RuntimeError after NUM_RETRIES non-zero returns, and in every case ends.
C33_BoundedRetry ==
    /\ []PrefetchBounded
    /\ <>(pc \in {"prefetched", "prefetch_error"})

\* with a limit of three, the third invocation failed like the two before
C33_Witness ==
    /\ pc = "prefetch_error"
    /\ NUM_RETRIES = 3
    /\ t = 3
    /\ subprocess_returns = <<1, 2, 1>>

\* ------------------------------------------ sample names of the two tables
\* the sample_name that _check_sample_name_standard leaves in the record of
\* experiment X when the mapping of the reconciler is written
TableName(X) ==
    DictGet(FixSampleNames(gsm_metadata), X)["sample_name"].s

\* C34: in non-split mode every row of the subannotation table carries the
\* sample_name that the row of its experiment has in the sample table,
\* whatever the override name and the title.
C34_NamesAgree ==
    (Reconciling /\ ~split_experiments) =>
        \A X \in Experiments :
            DictHas(gsm_multi_table, X) =>
                \A i \in 1..Len(RowsOf(X)) : RowsOf(X)[i][1] = TableName(X)

\* ------------------------------------------------- download of the raw data
\* the runs _download_raw_data was called for
DownloadedRuns == {raw_data_calls[j].run : j \in 1..Len(raw_data_calls)}

\* C35: with the download enabled, when fetch_all has taken every series
\* it has called _download_raw_data for every run row whose experiment is in
\* the sample table, the only run of a single-run experiment included,
\* whatever the outcome of the calls before.
C35_EveryRunDownloaded ==
    (pc = "write" /\ ~just_metadata) =>
        \A i \in 1..Len(acc_GSE_list) :
            LET series == acc_GSE_list[i] IN
            \A r \in 1..Len(series.run_info.l) :
                series.run_info.l[r].Experiment \in SampleKeys(series) =>
                    <<series.run_info.l[r].Run>> \in DownloadedRuns

\* ------------------------------------- non-split reconciliation, stepwise
\* C36: in non-split mode, after every run row, the SRR of each record is
\* null, one run id or "multi"; it is "multi" exactly when the experiment
\* has an entry in the linkage table, and that entry has as many triples as
\* run rows of the experiment were processed so far.
C36_StepwiseSrr ==
    (Reconciling /\ ~split_experiments) =>
        \A n \in 1..Len(gsm_metadata) :
            LET X == gsm_metadata[n].k
                SRR == gsm_metadata[n].v["SRR"]
            IN /\ \/ SRR = None
                  \/ SRR = Str(<<"multi">>)
                  \/ \E r \in 1..Len(RunsOf(X)) : SRR = Str(<<RunsOf(X)[r]>>)
               /\ SRR = None <=> RunsOf(X) = <<>>
               /\ SRR = Str(<<"multi">>) <=> DictHas(gsm_multi_table, X)
               /\ DictHas(gsm_multi_table, X) =>
                     Len(DictGet(gsm_multi_table, X)) = Len(RunsOf(X))

\* three runs of one experiment gave a linkage entry of three triples while
\* the other experiment keeps its single run in SRR
C36_Witness ==
    /\ pc = "sra" /\ ~split_experiments
    /\ Len(gsm_metadata) = 2
    /\ Len(RunsOf("SRX1001")) = 3
    /\ Len(RunsOf("SRX1002")) = 1
    /\ DictGet(gsm_metadata, "SRX1001")["SRR"] = Str(<<"multi">>)
    /\ DictGet(gsm_metadata, "SRX1002")["SRR"] = Str(<<"SRR4">>)
    /\ Len(DictGet(gsm_multi_table, "SRX1001")) = 3

\* ------------------------------------------- combined tables across series
\* C37: in non-split mode, after the merge of any sequence of series, also
\* of series that contain the same experiment, an experiment has an entry in
\* the combined linkage table exactly when its combined record has
\* SRR = "multi".
C37_CombinedConsistent ==
    ~split_experiments =>
        /\ \A n \in 1..Len(subannotation_dict_combined) :
               LET X == subannotation_dict_combined[n].k
               IN /\ DictHas(metadata_dict_combined, X)
                  /\ DictGet(metadata_dict_combined, X)["SRR"] = Str(<<"multi">>)
        /\ \A n \in 1..Len(metadata_dict_combined) :
               metadata_dict_combined[n].v["SRR"] = Str(<<"multi">>)
                  => DictHas(subannotation_dict_combined, metadata_dict_combined[n].k)

\* ------------------------------------------ _separate_common_meta, samples
\* C38: for any positive limits and any non-empty mapping, a single sample
\* included, the call of _separate_common_meta completes and the returned
\* mapping has the sample keys of the input.
C38_SampleKeysKept ==
    pc \in {"meta_done", "error"} =>
        /\ pc = "meta_done"
        /\ {meta_list[n].k : n \in 1..Len(meta_list)}
              = {metadata_dict[n].k : n \in 1..Len(metadata_dict)}

\* ------------------------------------------- _download_processed_file
\* the calls of _download_file made so far
DownloadAttempts ==
    Len(download_errors)
    + (IF pc \in {"returned", "raised"}
          /\ return_value \notin {Raised(e) : e \in IOErrors} THEN 1 ELSE 0)

\* C39: _download_processed_file calls _download_file at most 5 times; it
\* returns True at the first call that succeeds, raises the IOError of the
\* fifth failed call in a row, and never returns without a success: the
\* loop bound of 10 is never what ends the loop.
C39_FiveAttempts ==
    /\ DownloadAttempts <= 5
    /\ ntry = Len(download_errors)
    /\ pc = "returned" => /\ return_value = True
                          /\ ntry < 5
    /\ (pc = "raised" /\ return_value.e \in IOErrors) =>
          /\ ntry = 5
          /\ return_value = Raised(download_errors[5])
    /\ pc = "download" => ntry < 5

\* five failed calls with different errors: the last one is raised
C39_Witness ==
    /\ pc = "raised"
    /\ download_errors = <<"timed out", "timed out", "timed out", "timed out",
                           "connection refused">>
    /\ return_value = Raised("connection refused")

============================================================================
